---- MODULE Spec2Model ----
(***************************************************************************)
(* Model of desec-ddns: the polling loop of DesecDdnsUpdater               *)
(* (monitorAndUpdateIP), IpProviderService.getPublicIP and                 *)
(* DesecApiService.getCurrentARecordIP / updateARecord.                    *)
(*                                                                         *)
(*   Spec         the polling loop, from the entry of monitorAndUpdateIP   *)
(*   SpecWrite    updateARecord called with any string                     *)
(*   SpecStart    the process from loadConfig on                           *)
(*   SpecConfig   loadConfig over the texts of its options                 *)
(*   SpecRate     the polling loop with the minutes of the limiter counted *)
(*   SpecLimiter  one DesecApiService used by several callers at once      *)
(*   SpecFair     the polling loop with progress, for convergence          *)
(*   SpecRecord   the process over the ways to name the record             *)
(*   SpecWait     the polling loop with waits up to the limit of a timer   *)
(*   SpecBackoff  updateARecord with retries up to the limit of a timer    *)
(*   SpecSlots    updateARecord through a limiter of few places            *)
(*                                                                         *)
(* A JavaScript string is a sequence of one-character strings, so that     *)
(* validation and trimming are computed on the characters.  The value      *)
(* null is the one-element sequence <<"null">>, which is no string.        *)
(***************************************************************************)
EXTENDS Naturals, Sequences, FiniteSets

VARIABLES
  pc,                 \* position of the single worker in monitorAndUpdateIP
  lastIp,             \* monitorAndUpdateIP: let lastIp
  consecutiveErrors,  \* monitorAndUpdateIP: let consecutiveErrors
  exitCode,           \* argument of process.exit, 0 while the process runs
  config,             \* the Config that loadConfig returned
  providerIdx,        \* getPublicIP: index of the provider of the for loop
  attemptNumber,      \* p-retry: number of the attempt in progress
  lastDelay,          \* p-retry: milliseconds waited before the attempt in
                      \* progress, 0 for a first attempt
  ip,                 \* the tick's const ip / the argument of updateARecord
  activeCount,        \* p-limit: operations admitted and not yet finished
  \* ---- observations of the run (written, never read, by the program) ----
  getLog,             \* GETs of the getPublicIP call in progress or just
                      \* finished, in order: [prov, ok, val], val the parsed
                      \* body of a 2xx answer
  tickLastIp,         \* lastIp when the current tick started
  resolveResult,      \* "none" | "ok" | "failed": getPublicIP in this tick
  writeArgs,          \* arguments of the updateARecord calls of this tick
  putCount,           \* PUT requests sent in this tick
  writeResult,        \* "none" | "ok" | "invalid" | "failed"
  seedResult,         \* "none" | "ok" | "failed": the initial read, kept
                      \* until the first tick starts
  seedValue,          \* what getCurrentARecordIP returned (null if it
                      \* threw), kept until the first tick starts
  seedRecords,        \* the records array of the 2xx answer to the initial
                      \* read, kept until the first tick starts
  loadEnv,            \* the environment loadConfig ran in, kept until the
                      \* first tick starts
  streak,             \* failed ticks in a row, counted from the tick outcomes
  polled,             \* TRUE once the first tick has started
  windowAdmits,       \* DNS operations the limiter admitted in the minute
                      \* that is running, counted up to one more than
                      \* requestsPerMinute
  sleptMs,            \* milliseconds the loop waited since the last tick
                      \* ended, 0 from the start of a tick on
  getUrl,             \* URL of the GET requests of getCurrentARecordIP
  putRequest,         \* [url, body] of the PUT requests of this tick
  lastStatus,         \* status of the last answer of the DNS API in this
                      \* tick (before the first tick: to the initial read),
                      \* 0 when the fetch threw or none was made
  \* ---- concurrent callers of one DesecApiService (SpecLimiter only) ----
  opState,            \* per caller: "idle" | "queued" | "running" |
                      \* "returned" | "threw"
  opAttempt,          \* per caller: p-retry's attempt number of its request
  queue               \* p-limit: the callers waiting, first in first out

vars == <<pc, lastIp, consecutiveErrors, exitCode, config, providerIdx,
          attemptNumber,
          lastDelay, ip, activeCount, getLog, tickLastIp, resolveResult,
          writeArgs, putCount, writeResult, seedResult, seedValue, seedRecords,
          loadEnv, streak,
          polled, windowAdmits, sleptMs, getUrl, putRequest, lastStatus,
          opState, opAttempt, queue>>

progVars == <<lastIp, consecutiveErrors, exitCode, config, providerIdx,
              attemptNumber, lastDelay, ip, activeCount>>

----------------------------------------------------------------------------
\* Bounds of the model

MaxRetriesBound == 2

----------------------------------------------------------------------------
\* Values

null == <<"null">>

\* An environment variable that is not set
undefined == <<"undefined">>

IP_A == <<"5", ".", "6", ".", "7", ".", "8">>

IP_B == <<"9", ".", "9", ".", "9", ".", "9">>

IP_B_NL == <<"9", ".", "9", ".", "9", ".", "9", "\n">>

IP_MIN == <<"0", ".", "0", ".", "0", ".", "0">>

IP_MAX == <<"2", "5", "5", ".", "2", "5", "5", ".", "2", "5", "5", ".", "2", "5", "5">>

NOT_AN_IP == <<"n", "o", "t", "-", "a", "n", "-", "i", "p">>

IP_999 == <<"9", "9", "9", ".", "1", ".", "1", ".", "1">>

IP_256 == <<"2", "5", "6", ".", "1", ".", "1", ".", "1">>

IP_SHORT == <<"1", ".", "2", ".", "3">>

IP_LONG == <<"1", ".", "2", ".", "3", ".", "4", ".", "5">>

EMPTY == <<>>

MAX_CONSECUTIVE_ERRORS == 5

\* loadConfig: the default of REQUESTS_PER_MINUTE
REQUESTS_PER_MINUTE == 30

----------------------------------------------------------------------------
\* validator.isIP(ip, 4) as used by isValidIPv4

Digits == {"0", "1", "2", "3", "4", "5", "6", "7", "8", "9"}

DigitVal(c) ==
  CASE c = "0" -> 0 [] c = "1" -> 1 [] c = "2" -> 2 [] c = "3" -> 3
    [] c = "4" -> 4 [] c = "5" -> 5 [] c = "6" -> 6 [] c = "7" -> 7
    [] c = "8" -> 8 [] c = "9" -> 9 [] OTHER -> 0

RECURSIVE SegValue(_)
SegValue(seg) ==
  IF seg = <<>> THEN 0
  ELSE 10 * SegValue(SubSeq(seg, 1, Len(seg) - 1)) + DigitVal(seg[Len(seg)])

RECURSIVE SplitDots(_, _)
SplitDots(s, cur) ==
  IF s = <<>> THEN <<cur>>
  ELSE IF Head(s) = "." THEN <<cur>> \o SplitDots(Tail(s), <<>>)
  ELSE SplitDots(Tail(s), Append(cur, Head(s)))

ValidSegment(seg) ==
  /\ Len(seg) \in 1..3
  /\ \A i \in 1..Len(seg) : seg[i] \in Digits
  /\ (Len(seg) > 1 => seg[1] # "0")
  /\ SegValue(seg) <= 255

isValidIPv4(s) ==
  LET parts == SplitDots(s, <<>>)
  IN /\ Len(parts) = 4
     /\ \A i \in 1..4 : ValidSegment(parts[i])

\* String.prototype.trim
Whitespace == {" ", "\n", "\t", "\r"}

RECURSIVE TrimLeft(_)
TrimLeft(s) ==
  IF s # <<>> /\ Head(s) \in Whitespace THEN TrimLeft(Tail(s)) ELSE s

RECURSIVE TrimRight(_)
TrimRight(s) ==
  IF s # <<>> /\ s[Len(s)] \in Whitespace
  THEN TrimRight(SubSeq(s, 1, Len(s) - 1)) ELSE s

trim(s) == TrimRight(TrimLeft(s))

\* JavaScript truthiness of a string | null | undefined
Truthy(v) == v # null /\ v # undefined /\ v # <<>>

----------------------------------------------------------------------------
\* validator.isFQDN(domain) with its default options, as used by
\* isValidDomain: at least two labels, the last one of two or more letters
\* (or an xn-- label), every label of 1..63 letters, digits and hyphens with
\* no hyphen at either end, no underscore

Letters ==
  {"a", "b", "c", "d", "e", "f", "g", "h", "i", "j", "k", "l", "m", "n",
   "o", "p", "q", "r", "s", "t", "u", "v", "w", "x", "y", "z"}

ValidTld(tld) ==
  \/ /\ Len(tld) >= 2
     /\ \A i \in 1..Len(tld) : tld[i] \in Letters
  \/ /\ Len(tld) >= 4
     /\ tld[1] = "x" /\ tld[2] = "n"
     /\ \A i \in 3..Len(tld) : tld[i] \in Letters \cup Digits \cup {"-"}

ValidLabel(part) ==
  /\ Len(part) \in 1..63
  /\ \A i \in 1..Len(part) : part[i] \in Letters \cup Digits \cup {"-"}
  /\ part[1] # "-"
  /\ part[Len(part)] # "-"

isValidDomain(domain) ==
  LET parts == SplitDots(domain, <<>>)
  IN /\ Len(parts) >= 2
     /\ ValidTld(parts[Len(parts)])
     /\ \A i \in 1..Len(parts) : ValidLabel(parts[i])

----------------------------------------------------------------------------
\* parseInt(value, radix): leading white space is skipped, then an optional
\* sign, then the longest run of digits of the radix; NaN when there is no
\* digit.  The result is [nan, neg, mag]: not a number, or the sign and the
\* magnitude.

RECURSIVE DigitPrefix(_, _)
DigitPrefix(s, radix) ==
  IF s # <<>> /\ Head(s) \in Digits /\ DigitVal(Head(s)) < radix
  THEN <<Head(s)>> \o DigitPrefix(Tail(s), radix)
  ELSE <<>>

RECURSIVE DigitsValue(_, _)
DigitsValue(d, radix) ==
  IF d = <<>> THEN 0
  ELSE radix * DigitsValue(SubSeq(d, 1, Len(d) - 1), radix)
         + DigitVal(d[Len(d)])

parseInt(value, radix) ==
  LET t == TrimLeft(value)
      signed == t # <<>> /\ Head(t) \in {"+", "-"}
      d == DigitPrefix(IF signed THEN Tail(t) ELSE t, radix)
  IN [nan |-> d = <<>>,
      neg |-> signed /\ Head(t) = "-",
      mag |-> DigitsValue(d, radix)]

\* Mutant of validatePositiveInteger: the test is parsed < 0, zero passes
validatePositiveIntegerZeroOk(value, name, defaultValue) ==
  LET parsed == parseInt(value, 10)
  IN IF parsed.nan \/ (parsed.neg /\ parsed.mag > 0)
     THEN defaultValue
     ELSE parsed.mag

\* validatePositiveInteger: isNaN(parsed) || parsed <= 0 gives the default
validatePositiveInteger(value, name, defaultValue) ==
  LET parsed == parseInt(value, 10)
  IN IF parsed.nan \/ parsed.neg \/ parsed.mag = 0
     THEN defaultValue
     ELSE parsed.mag

\* The decimal text of a number, as in the string literals '300', '3', ...
DigitChar(d) ==
  CASE d = 0 -> "0" [] d = 1 -> "1" [] d = 2 -> "2" [] d = 3 -> "3"
    [] d = 4 -> "4" [] d = 5 -> "5" [] d = 6 -> "6" [] d = 7 -> "7"
    [] d = 8 -> "8" [] d = 9 -> "9"

RECURSIVE Dec(_)
Dec(n) ==
  IF n < 10 THEN <<DigitChar(n)>>
  ELSE Append(Dec(n \div 10), DigitChar(n % 10))

----------------------------------------------------------------------------
\* loadConfig.  Its input env is what the process finds at startup:
\*   secretToken, secretDomain  content of /run/secrets/desec_token and
\*                              /run/secrets/desec_domain, null if absent
\*   tokenFile, domainFile      content of the file named by DESEC_TOKEN_FILE
\*                              / DESEC_DOMAIN_FILE, null if the variable is
\*                              not set or the file is absent
\*   DESEC_TOKEN ... TTL        the environment variables, undefined if unset

\* loadConfig: the defaults of INTERVAL_SECONDS, MAX_RETRIES and TTL
INTERVAL_SECONDS == 300

MAX_RETRIES == 3

TTL == 3600

\* loadConfig: the default of DESEC_RECORD
APEX == <<"@">>

\* readFileIfExists, of the content of the file (null: no such file)
readFileIfExists(content) == IF content = null THEN null ELSE trim(content)

\* JavaScript a || b
Or(a, b) == IF Truthy(a) THEN a ELSE b

\* loadConfig: secret file first, then the *_FILE variable, then the variable
FirstSource(secret, file, variable) ==
  LET fromSecret == readFileIfExists(secret)
      fromFile == IF ~Truthy(fromSecret) /\ file # null
                  THEN readFileIfExists(file) ELSE fromSecret
  IN IF ~Truthy(fromFile) THEN Or(variable, null) ELSE fromFile

\* The Config before loadConfig has returned
NoConfig ==
  [desecToken |-> null, desecDomain |-> null, desecRecord |-> null,
   intervalSeconds |-> 0, maxRetries |-> 0, requestsPerMinute |-> 0,
   ttl |-> 0]

\* loadConfig: [exit] when it calls process.exit(1), else the Config
loadConfig(env) ==
  LET desecToken == FirstSource(env.secretToken, env.tokenFile,
                                env.DESEC_TOKEN)
      desecDomain == FirstSource(env.secretDomain, env.domainFile,
                                 env.DESEC_DOMAIN)
      desecRecord == Or(env.DESEC_RECORD, APEX)
      intervalSecondsStr == Or(env.INTERVAL_SECONDS, Dec(INTERVAL_SECONDS))
      maxRetriesStr == Or(env.MAX_RETRIES, Dec(MAX_RETRIES))
      requestsPerMinuteStr ==
        Or(env.REQUESTS_PER_MINUTE, Dec(REQUESTS_PER_MINUTE))
      ttlStr == Or(env.TTL, Dec(TTL))
  IN IF ~Truthy(desecToken) THEN [exit |-> TRUE, config |-> NoConfig]
     ELSE IF ~Truthy(desecDomain) THEN [exit |-> TRUE, config |-> NoConfig]
     ELSE IF ~isValidDomain(desecDomain)
     THEN [exit |-> TRUE, config |-> NoConfig]
     ELSE [exit |-> FALSE,
           config |->
             [desecToken |-> desecToken,
              desecDomain |-> desecDomain,
              desecRecord |-> desecRecord,
              intervalSeconds |->
                validatePositiveInteger(intervalSecondsStr,
                                        "INTERVAL_SECONDS", INTERVAL_SECONDS),
              maxRetries |->
                validatePositiveInteger(maxRetriesStr, "MAX_RETRIES",
                                        MAX_RETRIES),
              requestsPerMinute |->
                validatePositiveInteger(requestsPerMinuteStr,
                                        "REQUESTS_PER_MINUTE",
                                        REQUESTS_PER_MINUTE),
              ttl |-> validatePositiveInteger(ttlStr, "TTL", TTL)]]

\* Environments of the polling loop: token and domain given, MAX_RETRIES set
\* to a small number, everything else left to its default
TOKEN == <<"t", "0", "k">>

DOMAIN_OK == <<"a", "b", ".", "i", "o">>

BaseEnv ==
  [secretToken |-> null, tokenFile |-> null, DESEC_TOKEN |-> TOKEN,
   secretDomain |-> null, domainFile |-> null, DESEC_DOMAIN |-> DOMAIN_OK,
   DESEC_RECORD |-> undefined, INTERVAL_SECONDS |-> undefined,
   MAX_RETRIES |-> undefined, REQUESTS_PER_MINUTE |-> undefined,
   TTL |-> undefined]

\* No environment on record
NoEnv ==
  [secretToken |-> null, tokenFile |-> null, DESEC_TOKEN |-> undefined,
   secretDomain |-> null, domainFile |-> null, DESEC_DOMAIN |-> undefined,
   DESEC_RECORD |-> undefined, INTERVAL_SECONDS |-> undefined,
   MAX_RETRIES |-> undefined, REQUESTS_PER_MINUTE |-> undefined,
   TTL |-> undefined]

LoopEnvs == {[BaseEnv EXCEPT !.MAX_RETRIES = Dec(n)] : n \in 1..MaxRetriesBound}

LoopConfigs == {loadConfig(env).config : env \in LoopEnvs}

----------------------------------------------------------------------------
\* ipProviders: the ordered list; parser "ip" is data.ip, "trim" is data.trim()

ipProviders ==
  << [name |-> "ipify",     parser |-> "ip"],
     [name |-> "ident.me",  parser |-> "trim"],
     [name |-> "wtfismyip", parser |-> "trim"],
     [name |-> "rootnet",   parser |-> "trim"] >>

parse(provider, data) ==
  IF provider.parser = "trim" THEN trim(data) ELSE data

\* What one GET of an IP provider can give: an error (network failure,
\* timeout, non-2xx status) or a body (for ipify: the "ip" field of the JSON)
IpBodies == {IP_A, IP_B_NL, NOT_AN_IP}

\* What the GET of the record can give besides an error: the records array
RecordLists == {<<>>, <<IP_A>>, <<IP_B, IP_A>>, <<NOT_AN_IP>>, <<EMPTY>>}

----------------------------------------------------------------------------
\* Pieces of the code

\* Mutant of RetryAgain: one attempt more than retries + 1
RetryAgainOneMore(attempt, retries) == attempt <= retries + 1

\* p-retry: after a failed attempt, is another attempt made?
RetryAgain(attempt, retries) == attempt <= retries

\* p-limit: may an operation start now?
Admits(active, concurrency) == active < concurrency

\* Mutants of IpChanged: the comparison dropped; null taken for "no change"
IpChangedAlways(newIp, last) == TRUE

IpChangedUnlessNull(newIp, last) == newIp # last /\ last # null

\* monitorAndUpdateIP: if (ip !== lastIp)
IpChanged(newIp, last) == newIp # last

\* Mutants of TooManyErrors: the threshold one too low; > for >=
TooManyErrorsEarly(n) == n >= MAX_CONSECUTIVE_ERRORS - 1

TooManyErrorsLate(n) == n > MAX_CONSECUTIVE_ERRORS

\* monitorAndUpdateIP: if (consecutiveErrors >= MAX_CONSECUTIVE_ERRORS)
TooManyErrors(n) == n >= MAX_CONSECUTIVE_ERRORS

\* Mutant of CurrentARecord: the test of the validation inverted, a valid
\* first record gives null
CurrentARecordInverted(records) ==
  LET currentIP == IF Len(records) > 0 THEN records[1] ELSE null
  IN IF Truthy(currentIP) /\ isValidIPv4(currentIP) THEN null ELSE currentIP

\* getCurrentARecordIP: the value returned for a 2xx response
CurrentARecord(records) ==
  LET currentIP == IF Len(records) > 0 THEN records[1] ELSE null
  IN IF Truthy(currentIP) /\ ~isValidIPv4(currentIP) THEN null ELSE currentIP

\* Mutant of Accepts: the validation of the response dropped
AcceptsAnything(response) == TRUE

\* getPublicIP: after isValidIPv4(response), return it or go on
Accepts(response) == isValidIPv4(response)

\* Mutant of HasNextProvider: the loop stops one provider early
HasNextProviderOffByOne(idx) == idx < Len(ipProviders) - 1

\* getPublicIP: the for loop has another provider
HasNextProvider(idx) == idx < Len(ipProviders)

\* Mutant of WriteAccepts: the validation of the argument dropped
WriteAcceptsAnything(arg) == TRUE

\* updateARecord: the check before the request is built
WriteAccepts(arg) == isValidIPv4(arg)

----------------------------------------------------------------------------
\* The minute of requestsPerMinute, in seconds
WINDOW_SECONDS == 60

\* The count of the operations admitted in the running minute, after one
\* more: it stops at one more than the ceiling
Counted(n, ceiling) == IF n > ceiling THEN n ELSE n + 1

\* No caller besides the polling loop
NoCallers == <<>>

----------------------------------------------------------------------------
\* The requests to the DNS API and the waits

\* The answers a fetch of the DNS API can end with: 0 when it threw (network
\* error, timeout), else the status of the response
Responses == {0, 200, 404}

\* Mutant of ResOk: any response is taken as a success
ResOkAny(status) == status > 0

\* node-fetch: res.ok
ResOk(status) == status \in 200..299

\* Node: the longest delay of a timer, 2^31 - 1 ms
TIMEOUT_MAX == 2147483647

\* setTimeout(callback, units * scale), for units >= 1: the milliseconds
\* after which the timer fires.  Node sets a delay above TIMEOUT_MAX to 1.
\* The product is formed only when it fits.
TimerDelay(units, scale) ==
  IF units <= TIMEOUT_MAX \div scale THEN units * scale ELSE 1

\* p-retry: milliseconds waited after failed attempt number attempt, with
\* the timeouts the library computes when only retries is given (1000 ms
\* times 2 to the number of retries made before), each handed to setTimeout
RetryDelay(attempt) == TimerDelay(2 ^ (attempt - 1), 1000)

\* monitorAndUpdateIP: the wait of
\* setTimeout(resolve, this.config.intervalSeconds * 1000)
WaitMs(cfg) == TimerDelay(cfg.intervalSeconds, 1000)

URL_DOMAINS ==
  <<"h", "t", "t", "p", "s", ":", "/", "/", "d", "e", "s", "e",
    "c", ".", "i", "o", "/", "a", "p", "i", "/", "v", "1", "/",
    "d", "o", "m", "a", "i", "n", "s", "/">>

URL_RRSETS == <<"/", "r", "r", "s", "e", "t", "s", "/">>

URL_APEX == <<".", ".", ".">>

URL_A == <<"/", "A", "/">>

\* Mutant of buildRecordUrl: the record name always in the URL
buildRecordUrlLabelOnly(cfg) ==
  URL_DOMAINS \o cfg.desecDomain \o URL_RRSETS \o cfg.desecRecord \o URL_A

\* DesecApiService.buildRecordUrl
buildRecordUrl(cfg) ==
  IF cfg.desecRecord # APEX
  THEN URL_DOMAINS \o cfg.desecDomain \o URL_RRSETS \o cfg.desecRecord \o URL_A
  ELSE URL_DOMAINS \o cfg.desecDomain \o URL_RRSETS \o URL_APEX \o URL_A

\* updateARecord: the object given to JSON.stringify
PutBody(cfg, arg) ==
  [subname |-> IF cfg.desecRecord # APEX THEN cfg.desecRecord ELSE EMPTY,
   records |-> <<arg>>,
   ttl     |-> cfg.ttl,
   type    |-> "A"]

\* No PUT request built in this tick
NoRequest ==
  [url |-> <<>>,
   body |-> [subname |-> <<>>, records |-> <<>>, ttl |-> 0, type |-> ""]]

Init ==
  /\ pc = "seed"
  /\ lastIp = null
  /\ consecutiveErrors = 0
  /\ exitCode = 0
  /\ \E env \in LoopEnvs : config = loadConfig(env).config /\ loadEnv = env
  /\ providerIdx = 0
  /\ attemptNumber = 0
  /\ lastDelay = 0
  /\ ip = null
  /\ activeCount = 0
  /\ getLog = <<>>
  /\ tickLastIp = null
  /\ resolveResult = "none"
  /\ writeArgs = <<>>
  /\ putCount = 0
  /\ writeResult = "none"
  /\ seedResult = "none"
  /\ seedValue = null
  /\ seedRecords = <<>>
  /\ streak = 0
  /\ polled = FALSE
  /\ windowAdmits = 0
  /\ opState = NoCallers
  /\ opAttempt = NoCallers
  /\ queue = <<>>
  /\ sleptMs = 0
  /\ getUrl = <<>>
  /\ putRequest = NoRequest
  /\ lastStatus = 0

tickObs == <<getLog, tickLastIp, resolveResult, writeArgs, putCount,
             writeResult>>

seedObs == <<seedResult, seedValue, seedRecords, loadEnv>>

streakObs == <<streak>>

rateObs == <<windowAdmits>>

limiterVars == <<opState, opAttempt, queue>>

timeObs == <<sleptMs>>

wireObs == <<getUrl, putRequest, lastStatus>>

\* Mutant of SeedCall: the initial read is started but not awaited, the loop
\* goes on while it is in flight
SeedCallNotAwaited ==
  /\ pc = "seed"
  /\ Admits(activeCount, config.requestsPerMinute)
  /\ activeCount' = activeCount + 1
  /\ attemptNumber' = 1
  /\ lastDelay' = 0
  /\ pc' = "poll"
  /\ UNCHANGED <<lastIp, consecutiveErrors, exitCode, config, providerIdx, ip,
                 tickObs, seedObs, streakObs, polled>>
  /\ windowAdmits' = Counted(windowAdmits, config.requestsPerMinute)
  /\ UNCHANGED limiterVars
  /\ getUrl' = buildRecordUrl(config)
  /\ UNCHANGED <<timeObs, putRequest, lastStatus>>

\* monitorAndUpdateIP calls getCurrentARecordIP; the rate limiter admits it
SeedCall ==
  /\ pc = "seed"
  /\ Admits(activeCount, config.requestsPerMinute)
  /\ activeCount' = activeCount + 1
  /\ attemptNumber' = 1
  /\ lastDelay' = 0
  /\ pc' = "seedFetch"
  /\ UNCHANGED <<lastIp, consecutiveErrors, exitCode, config, providerIdx, ip,
                 tickObs, seedObs, streakObs, polled>>
  /\ windowAdmits' = Counted(windowAdmits, config.requestsPerMinute)
  /\ UNCHANGED limiterVars
  /\ getUrl' = buildRecordUrl(config)
  /\ UNCHANGED <<timeObs, putRequest, lastStatus>>

\* Mutant of SeedFetchError: a failed initial read ends the process
SeedFetchErrorFatal ==
  /\ pc = "seedFetch"
  /\ IF RetryAgain(attemptNumber, config.maxRetries)
     THEN /\ attemptNumber' = attemptNumber + 1
          /\ lastDelay' = RetryDelay(attemptNumber)
          /\ UNCHANGED <<pc, activeCount, seedObs, exitCode>>
     ELSE /\ activeCount' = activeCount - 1
          /\ seedResult' = "failed"
          /\ exitCode' = 1
          /\ pc' = "exit"
          /\ UNCHANGED <<attemptNumber,
                         lastDelay, seedValue, seedRecords, loadEnv>>
  /\ UNCHANGED <<lastIp, consecutiveErrors, config, providerIdx, ip,
                 tickObs, streakObs, polled>>
  /\ UNCHANGED <<rateObs, limiterVars>>
  /\ \E res \in Responses : ~ResOk(res) /\ lastStatus' = res
  /\ UNCHANGED <<timeObs, getUrl, putRequest>>

\* Mutant of SeedFetchError: a failed initial read counts as an error
SeedFetchErrorCounted ==
  /\ pc = "seedFetch"
  /\ IF RetryAgain(attemptNumber, config.maxRetries)
     THEN /\ attemptNumber' = attemptNumber + 1
          /\ lastDelay' = RetryDelay(attemptNumber)
          /\ UNCHANGED <<pc, activeCount, seedObs, consecutiveErrors>>
     ELSE /\ activeCount' = activeCount - 1
          /\ seedResult' = "failed"
          /\ consecutiveErrors' = consecutiveErrors + 1
          /\ pc' = "poll"
          /\ UNCHANGED <<attemptNumber,
                         lastDelay, seedValue, seedRecords, loadEnv>>
  /\ UNCHANGED <<lastIp, exitCode, config, providerIdx, ip,
                 tickObs, streakObs, polled>>
  /\ UNCHANGED <<rateObs, limiterVars>>
  /\ \E res \in Responses : ~ResOk(res) /\ lastStatus' = res
  /\ UNCHANGED <<timeObs, getUrl, putRequest>>

\* One GET of the record fails: retried, or the read throws and the loop
\* goes on with lastIp null
SeedFetchError ==
  /\ pc = "seedFetch"
  /\ IF RetryAgain(attemptNumber, config.maxRetries)
     THEN /\ attemptNumber' = attemptNumber + 1
          /\ lastDelay' = RetryDelay(attemptNumber)
          /\ UNCHANGED <<pc, activeCount, seedObs>>
     ELSE /\ activeCount' = activeCount - 1
          /\ seedResult' = "failed"
          /\ pc' = "poll"
          /\ UNCHANGED <<attemptNumber,
                         lastDelay, seedValue, seedRecords, loadEnv>>
  /\ UNCHANGED <<lastIp, consecutiveErrors, exitCode, config, providerIdx, ip,
                 tickObs, streakObs, polled>>
  /\ UNCHANGED <<rateObs, limiterVars>>
  /\ \E res \in Responses : ~ResOk(res) /\ lastStatus' = res
  /\ UNCHANGED <<timeObs, getUrl, putRequest>>

\* One GET of the record answers 2xx with a records array
SeedFetchOk(records) ==
  /\ pc = "seedFetch"
  /\ activeCount' = activeCount - 1
  /\ lastIp' = CurrentARecord(records)
  /\ consecutiveErrors' = 0
  /\ seedResult' = "ok"
  /\ seedValue' = CurrentARecord(records)
  /\ seedRecords' = records
  /\ UNCHANGED loadEnv
  /\ pc' = "poll"
  /\ UNCHANGED <<exitCode, config, providerIdx, attemptNumber,
                 lastDelay, ip, tickObs,
                 streakObs, polled>>
  /\ UNCHANGED <<rateObs, limiterVars>>
  /\ \E res \in Responses : ResOk(res) /\ lastStatus' = res
  /\ UNCHANGED <<timeObs, getUrl, putRequest>>

\* Mutant of TickStart: getPublicIP is run through the rate limiter
TickStartLimited ==
  /\ pc = "poll"
  /\ Admits(activeCount, config.requestsPerMinute)
  /\ activeCount' = activeCount + 1
  /\ providerIdx' = 1
  /\ attemptNumber' = 1
  /\ lastDelay' = 0
  /\ ip' = null
  /\ getLog' = <<>>
  /\ tickLastIp' = lastIp
  /\ resolveResult' = "none"
  /\ writeArgs' = <<>>
  /\ putCount' = 0
  /\ writeResult' = "none"
  /\ polled' = TRUE
  /\ seedResult' = "none"
  /\ seedValue' = null
  /\ seedRecords' = <<>>
  /\ loadEnv' = NoEnv
  /\ pc' = "ipFetch"
  /\ UNCHANGED <<lastIp, consecutiveErrors, exitCode, config, streakObs>>
  /\ UNCHANGED <<rateObs, limiterVars>>
  /\ sleptMs' = 0
  /\ putRequest' = NoRequest
  /\ lastStatus' = 0
  /\ UNCHANGED getUrl

\* A tick starts: monitorAndUpdateIP calls getPublicIP, which takes the first
\* provider of the list
TickStart ==
  /\ pc = "poll"
  /\ providerIdx' = 1
  /\ attemptNumber' = 1
  /\ lastDelay' = 0
  /\ ip' = null
  /\ getLog' = <<>>
  /\ tickLastIp' = lastIp
  /\ resolveResult' = "none"
  /\ writeArgs' = <<>>
  /\ putCount' = 0
  /\ writeResult' = "none"
  /\ polled' = TRUE
  /\ seedResult' = "none"
  /\ seedValue' = null
  /\ seedRecords' = <<>>
  /\ loadEnv' = NoEnv
  /\ pc' = "ipFetch"
  /\ UNCHANGED <<lastIp, consecutiveErrors, exitCode, config, activeCount,
                 streakObs>>
  /\ UNCHANGED <<rateObs, limiterVars>>
  /\ sleptMs' = 0
  /\ putRequest' = NoRequest
  /\ lastStatus' = 0
  /\ UNCHANGED getUrl

\* Mutant of NextProvider: after the last provider the loop starts again
\* with the first
NextProviderWraps ==
  IF HasNextProvider(providerIdx)
  THEN /\ providerIdx' = providerIdx + 1
       /\ attemptNumber' = 1
       /\ lastDelay' = 0
       /\ UNCHANGED <<pc, resolveResult>>
  ELSE /\ providerIdx' = 1
       /\ attemptNumber' = 1
       /\ lastDelay' = 0
       /\ UNCHANGED <<pc, resolveResult>>

\* getPublicIP leaves the current provider: the next one, or the throw after
\* the loop
NextProvider ==
  IF HasNextProvider(providerIdx)
  THEN /\ providerIdx' = providerIdx + 1
       /\ attemptNumber' = 1
       /\ lastDelay' = 0
       /\ UNCHANGED <<pc, resolveResult>>
  ELSE /\ resolveResult' = "failed"
       /\ pc' = "catch"
       /\ UNCHANGED <<providerIdx, attemptNumber, lastDelay>>

\* One GET of the current provider fails (network error, timeout, non-2xx)
IpFetchError ==
  /\ pc = "ipFetch"
  /\ getLog' = Append(getLog, [prov |-> providerIdx, ok |-> FALSE, val |-> null])
  /\ IF RetryAgain(attemptNumber, config.maxRetries)
     THEN /\ attemptNumber' = attemptNumber + 1
          /\ lastDelay' = RetryDelay(attemptNumber)
          /\ UNCHANGED <<pc, providerIdx, resolveResult>>
     ELSE NextProvider
  /\ UNCHANGED <<lastIp, consecutiveErrors, exitCode, config, ip, activeCount,
                 tickLastIp, writeArgs, putCount, writeResult, seedObs,
                 streakObs, polled>>
  /\ UNCHANGED <<rateObs, limiterVars>>
  /\ UNCHANGED <<timeObs, wireObs>>

\* One GET of the current provider answers 2xx with a body that is no
\* string for the parser or the validator (no "ip" field, JSON where text is
\* expected): a TypeError, which p-retry does not retry and the catch block
\* of the loop turns into "next provider"
IpFetchUnparsable ==
  /\ pc = "ipFetch"
  /\ getLog' = Append(getLog, [prov |-> providerIdx, ok |-> TRUE, val |-> null])
  /\ NextProvider
  /\ UNCHANGED <<lastIp, consecutiveErrors, exitCode, config, ip, activeCount,
                 tickLastIp, writeArgs, putCount, writeResult, seedObs,
                 streakObs, polled>>
  /\ UNCHANGED <<rateObs, limiterVars>>
  /\ UNCHANGED <<timeObs, wireObs>>

\* Mutant of IpFetchOk: a valid response is kept but the loop goes on to
\* the next provider when there is one
IpFetchOkNoReturn(data) ==
  /\ pc = "ipFetch"
  /\ LET response == parse(ipProviders[providerIdx], data)
     IN /\ getLog' = Append(getLog, [prov |-> providerIdx, ok |-> TRUE,
                                     val |-> response])
        /\ IF Accepts(response) /\ ~HasNextProvider(providerIdx)
           THEN /\ ip' = response
                /\ resolveResult' = "ok"
                /\ pc' = "compare"
                /\ UNCHANGED <<providerIdx, attemptNumber, lastDelay>>
           ELSE /\ NextProvider
                /\ ip' = IF Accepts(response) THEN response ELSE ip
  /\ UNCHANGED <<lastIp, consecutiveErrors, exitCode, config, activeCount,
                 tickLastIp, writeArgs, putCount, writeResult, seedObs,
                 streakObs, polled>>
  /\ UNCHANGED <<rateObs, limiterVars>>
  /\ UNCHANGED <<timeObs, wireObs>>

\* One GET of the current provider answers 2xx with a body
IpFetchOk(data) ==
  /\ pc = "ipFetch"
  /\ LET response == parse(ipProviders[providerIdx], data)
     IN /\ getLog' = Append(getLog, [prov |-> providerIdx, ok |-> TRUE,
                                     val |-> response])
        /\ IF Accepts(response)
           THEN /\ ip' = response
                /\ resolveResult' = "ok"
                /\ pc' = "compare"
                /\ UNCHANGED <<providerIdx, attemptNumber, lastDelay>>
           ELSE /\ NextProvider
                /\ UNCHANGED ip
  /\ UNCHANGED <<lastIp, consecutiveErrors, exitCode, config, activeCount,
                 tickLastIp, writeArgs, putCount, writeResult, seedObs,
                 streakObs, polled>>
  /\ UNCHANGED <<rateObs, limiterVars>>
  /\ UNCHANGED <<timeObs, wireObs>>

\* Mutant of Compare: the counter is reset only in the branch that updates,
\* a tick without a change leaves it as it is
CompareNoReset ==
  /\ pc = "compare"
  /\ IF IpChanged(ip, lastIp)
     THEN /\ writeArgs' = Append(writeArgs, ip)
          /\ attemptNumber' = 0
          /\ lastDelay' = 0
          /\ pc' = "update"
          /\ UNCHANGED <<consecutiveErrors, streakObs>>
     ELSE /\ streak' = 0
          /\ pc' = "wait"
          /\ UNCHANGED <<consecutiveErrors, writeArgs, attemptNumber,
                         lastDelay>>
  /\ getLog' = <<>>
  /\ UNCHANGED <<lastIp, exitCode, config, providerIdx, ip, activeCount,
                 tickLastIp, resolveResult, putCount, writeResult,
                 seedObs, polled>>
  /\ UNCHANGED <<rateObs, limiterVars>>
  /\ UNCHANGED <<timeObs, wireObs>>

\* Mutant of Compare: lastIp is assigned before updateARecord is awaited
CompareAssignFirst ==
  /\ pc = "compare"
  /\ IF IpChanged(ip, lastIp)
     THEN /\ writeArgs' = Append(writeArgs, ip)
          /\ attemptNumber' = 0
          /\ lastDelay' = 0
          /\ lastIp' = ip
          /\ pc' = "update"
          /\ UNCHANGED <<consecutiveErrors, streakObs>>
     ELSE /\ consecutiveErrors' = 0
          /\ streak' = 0
          /\ pc' = "wait"
          /\ UNCHANGED <<writeArgs, attemptNumber, lastDelay, lastIp>>
  /\ getLog' = <<>>
  /\ UNCHANGED <<exitCode, config, providerIdx, ip, activeCount,
                 tickLastIp, resolveResult, putCount, writeResult,
                 seedObs, polled>>
  /\ UNCHANGED <<rateObs, limiterVars>>
  /\ UNCHANGED <<timeObs, wireObs>>

\* Mutant of Compare: updateARecord is called with lastIp, not with the ip
\* just resolved
CompareWritesLastIp ==
  /\ pc = "compare"
  /\ IF IpChanged(ip, lastIp)
     THEN /\ writeArgs' = Append(writeArgs, lastIp)
          /\ attemptNumber' = 0
          /\ lastDelay' = 0
          /\ pc' = "update"
          /\ UNCHANGED <<consecutiveErrors, streakObs>>
     ELSE /\ consecutiveErrors' = 0
          /\ streak' = 0
          /\ pc' = "wait"
          /\ UNCHANGED <<writeArgs, attemptNumber, lastDelay>>
  /\ getLog' = <<>>
  /\ UNCHANGED <<lastIp, exitCode, config, providerIdx, ip, activeCount,
                 tickLastIp, resolveResult, putCount, writeResult,
                 seedObs, polled>>
  /\ UNCHANGED <<rateObs, limiterVars>>
  /\ UNCHANGED <<timeObs, wireObs>>

\* monitorAndUpdateIP compares the resolved ip with lastIp: it calls
\* updateARecord(ip), or the tick ends without an update
Compare ==
  /\ pc = "compare"
  /\ IF IpChanged(ip, lastIp)
     THEN /\ writeArgs' = Append(writeArgs, ip)
          /\ attemptNumber' = 0
          /\ lastDelay' = 0
          /\ pc' = "update"
          /\ UNCHANGED <<consecutiveErrors, streakObs>>
     ELSE /\ consecutiveErrors' = 0
          /\ streak' = 0
          /\ pc' = "wait"
          /\ UNCHANGED <<writeArgs, attemptNumber, lastDelay>>
  /\ getLog' = <<>>
  /\ UNCHANGED <<lastIp, exitCode, config, providerIdx, ip, activeCount,
                 tickLastIp, resolveResult, putCount, writeResult,
                 seedObs, polled>>
  /\ UNCHANGED <<rateObs, limiterVars>>
  /\ UNCHANGED <<timeObs, wireObs>>

\* updateARecord: the rate limiter admits the operation, which checks its
\* argument and throws or starts the retried PUT
UpdateEnter ==
  /\ pc = "update"
  /\ Admits(activeCount, config.requestsPerMinute)
  /\ IF WriteAccepts(ip)
     THEN /\ activeCount' = activeCount + 1
          /\ attemptNumber' = 1
          /\ lastDelay' = 0
          /\ pc' = "putFetch"
          /\ putRequest' = [url |-> buildRecordUrl(config),
                            body |-> PutBody(config, ip)]
          /\ UNCHANGED writeResult
     ELSE /\ writeResult' = "invalid"
          /\ pc' = "catch"
          /\ UNCHANGED putRequest
          /\ UNCHANGED <<activeCount, attemptNumber, lastDelay>>
  /\ UNCHANGED <<lastIp, consecutiveErrors, exitCode, config, providerIdx, ip,
                 getLog, tickLastIp, resolveResult, writeArgs, putCount,
                 seedObs, streakObs, polled>>
  /\ windowAdmits' = Counted(windowAdmits, config.requestsPerMinute)
  /\ UNCHANGED limiterVars
  /\ UNCHANGED <<timeObs, getUrl, lastStatus>>

\* Mutant of PutFetchError: a retry goes through the limiter again
PutFetchErrorReenter ==
  /\ pc = "putFetch"
  /\ putCount' = putCount + 1
  /\ IF RetryAgain(attemptNumber, config.maxRetries)
     THEN /\ attemptNumber' = attemptNumber + 1
          /\ lastDelay' = RetryDelay(attemptNumber)
          /\ windowAdmits' = Counted(windowAdmits, config.requestsPerMinute)
          /\ UNCHANGED <<pc, activeCount, writeResult>>
     ELSE /\ activeCount' = activeCount - 1
          /\ writeResult' = "failed"
          /\ pc' = "catch"
          /\ UNCHANGED <<attemptNumber, lastDelay, windowAdmits>>
  /\ UNCHANGED <<lastIp, consecutiveErrors, exitCode, config, providerIdx, ip,
                 getLog, tickLastIp, resolveResult, writeArgs, seedObs,
                 streakObs, polled>>
  /\ UNCHANGED limiterVars
  /\ \E res \in Responses : ~ResOk(res) /\ lastStatus' = res
  /\ UNCHANGED <<timeObs, getUrl, putRequest>>

\* Mutant of PutFetchError: an operation that fails keeps its place in the
\* limiter
PutFetchErrorLeaks ==
  /\ pc = "putFetch"
  /\ putCount' = putCount + 1
  /\ IF RetryAgain(attemptNumber, config.maxRetries)
     THEN /\ attemptNumber' = attemptNumber + 1
          /\ lastDelay' = RetryDelay(attemptNumber)
          /\ UNCHANGED <<pc, writeResult>>
     ELSE /\ writeResult' = "failed"
          /\ pc' = "catch"
          /\ UNCHANGED <<attemptNumber, lastDelay>>
  /\ UNCHANGED <<lastIp, consecutiveErrors, exitCode, config, providerIdx, ip,
                 activeCount, getLog, tickLastIp, resolveResult, writeArgs,
                 seedObs, streakObs, polled>>
  /\ UNCHANGED <<rateObs, limiterVars>>
  /\ \E res \in Responses : ~ResOk(res) /\ lastStatus' = res
  /\ UNCHANGED <<timeObs, getUrl, putRequest>>

\* One PUT of the record fails: retried, or updateARecord throws
PutFetchError ==
  /\ pc = "putFetch"
  /\ putCount' = putCount + 1
  /\ IF RetryAgain(attemptNumber, config.maxRetries)
     THEN /\ attemptNumber' = attemptNumber + 1
          /\ lastDelay' = RetryDelay(attemptNumber)
          /\ UNCHANGED <<pc, activeCount, writeResult>>
     ELSE /\ activeCount' = activeCount - 1
          /\ writeResult' = "failed"
          /\ pc' = "catch"
          /\ UNCHANGED <<attemptNumber, lastDelay>>
  /\ UNCHANGED <<lastIp, consecutiveErrors, exitCode, config, providerIdx, ip,
                 getLog, tickLastIp, resolveResult, writeArgs, seedObs,
                 streakObs, polled>>
  /\ UNCHANGED <<rateObs, limiterVars>>
  /\ \E res \in Responses : ~ResOk(res) /\ lastStatus' = res
  /\ UNCHANGED <<timeObs, getUrl, putRequest>>

\* One PUT of the record answers 2xx: updateARecord returns
PutFetchOk ==
  /\ pc = "putFetch"
  /\ putCount' = putCount + 1
  /\ activeCount' = activeCount - 1
  /\ writeResult' = "ok"
  /\ pc' = "updated"
  /\ UNCHANGED <<lastIp, consecutiveErrors, exitCode, config, providerIdx,
                 attemptNumber,
                 lastDelay, ip, getLog, tickLastIp, resolveResult,
                 writeArgs, seedObs, streakObs, polled>>
  /\ UNCHANGED <<rateObs, limiterVars>>
  /\ \E res \in Responses : ResOk(res) /\ lastStatus' = res
  /\ UNCHANGED <<timeObs, getUrl, putRequest>>

\* Mutant of Updated: the address written is not remembered
UpdatedForgets ==
  /\ pc = "updated"
  /\ consecutiveErrors' = 0
  /\ streak' = 0
  /\ pc' = "wait"
  /\ UNCHANGED <<lastIp, exitCode, config, providerIdx, attemptNumber,
                 lastDelay, ip,
                 activeCount, tickObs, seedObs, polled>>
  /\ UNCHANGED <<rateObs, limiterVars>>
  /\ UNCHANGED <<timeObs, wireObs>>

\* monitorAndUpdateIP after updateARecord returned
Updated ==
  /\ pc = "updated"
  /\ lastIp' = ip
  /\ consecutiveErrors' = 0
  /\ streak' = 0
  /\ pc' = "wait"
  /\ UNCHANGED <<exitCode, config, providerIdx, attemptNumber,
                 lastDelay, ip, activeCount,
                 tickObs, seedObs, polled>>
  /\ UNCHANGED <<rateObs, limiterVars>>
  /\ UNCHANGED <<timeObs, wireObs>>

\* Mutant of Catch: any error of a tick ends the process
CatchFatal ==
  /\ pc = "catch"
  /\ consecutiveErrors' = consecutiveErrors + 1
  /\ streak' = streak + 1
  /\ exitCode' = 1
  /\ pc' = "exit"
  /\ getLog' = <<>>
  /\ UNCHANGED <<lastIp, config, providerIdx, attemptNumber,
                 lastDelay, ip, activeCount,
                 tickLastIp, resolveResult, writeArgs, putCount, writeResult,
                 seedObs, polled>>
  /\ UNCHANGED <<rateObs, limiterVars>>
  /\ UNCHANGED <<timeObs, wireObs>>

\* monitorAndUpdateIP: the catch block of the tick
Catch ==
  /\ pc = "catch"
  /\ consecutiveErrors' = consecutiveErrors + 1
  /\ streak' = streak + 1
  /\ IF TooManyErrors(consecutiveErrors + 1)
     THEN /\ exitCode' = 1
          /\ pc' = "exit"
     ELSE /\ pc' = "wait"
          /\ UNCHANGED exitCode
  /\ getLog' = <<>>
  /\ UNCHANGED <<lastIp, config, providerIdx, attemptNumber,
                 lastDelay, ip, activeCount,
                 tickLastIp, resolveResult, writeArgs, putCount, writeResult,
                 seedObs, polled>>
  /\ UNCHANGED <<rateObs, limiterVars>>
  /\ UNCHANGED <<timeObs, wireObs>>

\* Mutant of Wait: the record is read again before every tick
WaitThenSeed ==
  /\ pc = "wait"
  /\ pc' = "seed"
  /\ UNCHANGED <<progVars, tickObs, seedObs, streakObs, polled>>
  /\ IF WaitMs(config) >= WINDOW_SECONDS * 1000
     THEN windowAdmits' = 0
     ELSE windowAdmits' \in {0, windowAdmits}
  /\ UNCHANGED limiterVars
  /\ sleptMs' = WaitMs(config)
  /\ UNCHANGED wireObs

\* The wait of intervalSeconds ends
Wait ==
  /\ pc = "wait"
  /\ pc' = "poll"
  /\ UNCHANGED <<progVars, tickObs, seedObs, streakObs, polled>>
  /\ IF WaitMs(config) >= WINDOW_SECONDS * 1000
     THEN windowAdmits' = 0
     ELSE windowAdmits' \in {0, windowAdmits}
  /\ UNCHANGED limiterVars
  /\ sleptMs' = WaitMs(config)
  /\ UNCHANGED wireObs

Next ==
  \/ SeedCall
  \/ SeedFetchError
  \/ \E records \in RecordLists : SeedFetchOk(records)
  \/ TickStart
  \/ IpFetchError
  \/ \E data \in IpBodies : IpFetchOk(data)
  \/ IpFetchUnparsable
  \/ Compare
  \/ UpdateEnter
  \/ PutFetchError
  \/ PutFetchOk
  \/ Updated
  \/ Catch
  \/ Wait

Spec == Init /\ [][Next]_vars

\* The loop with progress, for one retry: every fetch answers or times out
\* and every timer fires, so a step that can be taken is taken
InitFair == Init /\ config.maxRetries = 1

SpecFair == InitFair /\ [][Next]_vars /\ WF_vars(Next)

----------------------------------------------------------------------------
\* The start of the process: new DesecDdnsUpdater() runs loadConfig

\* What the process may find at startup
TOKEN_NL == <<"t", "0", "k", "\n">>

BLANK == <<" ", "\n">>

DOMAIN_NO_TLD == <<"l", "a", "n">>

DOMAIN_UNDERSCORE == <<"a", "_", "b", ".", "i", "o">>

DOMAIN_HYPHEN == <<"-", "a", ".", "i", "o">>

DOMAIN_SHORT_TLD == <<"a", "b", ".", "i">>

DOMAIN_EMPTY_LABEL == <<"a", ".", ".", "i", "o">>

BadDomains ==
  {DOMAIN_NO_TLD, DOMAIN_UNDERSCORE, DOMAIN_HYPHEN, DOMAIN_SHORT_TLD,
   DOMAIN_EMPTY_LABEL}

StartEnvs ==
  {[BaseEnv EXCEPT !.MAX_RETRIES = Dec(1), !.DESEC_TOKEN = t,
                   !.secretToken = s, !.DESEC_DOMAIN = d] :
     t \in {undefined, EMPTY, TOKEN},
     s \in {null, BLANK, TOKEN_NL},
     d \in {undefined, EMPTY, DOMAIN_OK} \cup BadDomains}

InitStart ==
  /\ pc = "load"
  /\ lastIp = null
  /\ consecutiveErrors = 0
  /\ exitCode = 0
  /\ config = NoConfig
  /\ providerIdx = 0
  /\ attemptNumber = 0
  /\ lastDelay = 0
  /\ ip = null
  /\ activeCount = 0
  /\ getLog = <<>>
  /\ tickLastIp = null
  /\ resolveResult = "none"
  /\ writeArgs = <<>>
  /\ putCount = 0
  /\ writeResult = "none"
  /\ seedResult = "none"
  /\ seedValue = null
  /\ seedRecords = <<>>
  /\ loadEnv = NoEnv
  /\ streak = 0
  /\ polled = FALSE
  /\ windowAdmits = 0
  /\ opState = NoCallers
  /\ opAttempt = NoCallers
  /\ queue = <<>>
  /\ sleptMs = 0
  /\ getUrl = <<>>
  /\ putRequest = NoRequest
  /\ lastStatus = 0

\* Mutant of LoadConfig: the errors are logged but the process goes on
LoadConfigNoExit(env) ==
  /\ pc = "load"
  /\ loadEnv' = env
  /\ config' = loadConfig(env).config
  /\ pc' = "seed"
  /\ UNCHANGED exitCode
  /\ UNCHANGED <<lastIp, consecutiveErrors, providerIdx, attemptNumber,
                 lastDelay, ip,
                 activeCount, tickObs, seedResult, seedValue, seedRecords,
                 streakObs, polled>>
  /\ UNCHANGED <<rateObs, limiterVars>>
  /\ UNCHANGED <<timeObs, wireObs>>

\* loadConfig runs: process.exit(1), or the Config with which the services
\* are built and monitorAndUpdateIP is entered
LoadConfig(env) ==
  /\ pc = "load"
  /\ loadEnv' = env
  /\ IF loadConfig(env).exit
     THEN /\ exitCode' = 1
          /\ pc' = "exit"
          /\ UNCHANGED config
     ELSE /\ config' = loadConfig(env).config
          /\ pc' = "seed"
          /\ UNCHANGED exitCode
  /\ UNCHANGED <<lastIp, consecutiveErrors, providerIdx, attemptNumber,
                 lastDelay, ip,
                 activeCount, tickObs, seedResult, seedValue, seedRecords,
                 streakObs, polled>>
  /\ UNCHANGED <<rateObs, limiterVars>>
  /\ UNCHANGED <<timeObs, wireObs>>

NextStart ==
  \/ \E env \in StartEnvs : LoadConfig(env)
  \/ Next

SpecStart == InitStart /\ [][NextStart]_vars

----------------------------------------------------------------------------
\* loadConfig on its own: the numeric options and DESEC_RECORD take any of
\* a set of texts

T_0 == <<"0">>

T_7 == <<"7">>

T_007 == <<"0", "0", "7">>

T_PLUS_8 == <<"+", "8">>

T_MINUS_5 == <<"-", "5">>

T_SPACE_42 == <<" ", "4", "2">>

T_ABC == <<"a", "b", "c">>

T_12ABC == <<"1", "2", "a", "b", "c">>

T_3_7 == <<"3", ".", "7">>

OptionTexts ==
  {undefined, EMPTY, T_0, T_7, T_007, T_PLUS_8, T_MINUS_5, T_SPACE_42, T_ABC,
   T_12ABC, T_3_7}

FewOptionTexts == {undefined, T_7, T_MINUS_5, T_ABC, T_3_7}

WWW == <<"w", "w", "w">>

ConfigEnvs ==
  {[BaseEnv EXCEPT !.INTERVAL_SECONDS = a, !.MAX_RETRIES = b,
                   !.REQUESTS_PER_MINUTE = c, !.TTL = d, !.DESEC_RECORD = r] :
     a \in OptionTexts, b \in OptionTexts, c \in FewOptionTexts,
     d \in FewOptionTexts, r \in {undefined, EMPTY, WWW}}

NextConfig == \E env \in ConfigEnvs : LoadConfig(env)

SpecConfig == InitStart /\ [][NextConfig]_vars

----------------------------------------------------------------------------
\* The process from loadConfig on, over the ways to name the record: not at
\* all, the empty string, the apex sign and a label

RecordEnvs ==
  {[BaseEnv EXCEPT !.MAX_RETRIES = Dec(1), !.DESEC_RECORD = r] :
     r \in {undefined, EMPTY, APEX, WWW}}

NextRecord ==
  \/ \E env \in RecordEnvs : LoadConfig(env)
  \/ Next

SpecRecord == InitStart /\ [][NextRecord]_vars

----------------------------------------------------------------------------
\* The polling loop with the minutes of requestsPerMinute observed: small
\* ceilings, and a wait of one second as well as the default one

MaxCeiling == 2

RateEnvs ==
  {[BaseEnv EXCEPT !.MAX_RETRIES = Dec(1), !.REQUESTS_PER_MINUTE = Dec(r),
                   !.INTERVAL_SECONDS = i] :
     r \in 1..MaxCeiling, i \in {Dec(1), undefined}}

InitRate ==
  /\ pc = "seed"
  /\ lastIp = null
  /\ consecutiveErrors = 0
  /\ exitCode = 0
  /\ \E env \in RateEnvs : config = loadConfig(env).config /\ loadEnv = env
  /\ providerIdx = 0
  /\ attemptNumber = 0
  /\ lastDelay = 0
  /\ ip = null
  /\ activeCount = 0
  /\ getLog = <<>>
  /\ tickLastIp = null
  /\ resolveResult = "none"
  /\ writeArgs = <<>>
  /\ putCount = 0
  /\ writeResult = "none"
  /\ seedResult = "none"
  /\ seedValue = null
  /\ seedRecords = <<>>
  /\ streak = 0
  /\ polled = FALSE
  /\ windowAdmits = 0
  /\ opState = NoCallers
  /\ opAttempt = NoCallers
  /\ queue = <<>>
  /\ sleptMs = 0
  /\ getUrl = <<>>
  /\ putRequest = NoRequest
  /\ lastStatus = 0

\* A minute ends while the process runs: the count of the next one starts
WindowEnds ==
  /\ pc # "exit"
  /\ windowAdmits > 0
  /\ windowAdmits' = 0
  /\ UNCHANGED <<pc, progVars, tickObs, seedObs, streakObs, polled,
                 limiterVars, timeObs, wireObs>>

NextRate ==
  \/ Next
  \/ WindowEnds

SpecRate == InitRate /\ [][NextRate]_vars

----------------------------------------------------------------------------
\* The loop with long waits: the default one, the longest one that a timer
\* of Node takes and one second more

WaitEnvs ==
  {[BaseEnv EXCEPT !.MAX_RETRIES = Dec(1), !.INTERVAL_SECONDS = i] :
     i \in {undefined, Dec(TIMEOUT_MAX \div 1000),
            Dec(TIMEOUT_MAX \div 1000 + 1)}}

InitWait ==
  /\ pc = "seed"
  /\ lastIp = null
  /\ consecutiveErrors = 0
  /\ exitCode = 0
  /\ \E env \in WaitEnvs : config = loadConfig(env).config /\ loadEnv = env
  /\ providerIdx = 0
  /\ attemptNumber = 0
  /\ lastDelay = 0
  /\ ip = null
  /\ activeCount = 0
  /\ getLog = <<>>
  /\ tickLastIp = null
  /\ resolveResult = "none"
  /\ writeArgs = <<>>
  /\ putCount = 0
  /\ writeResult = "none"
  /\ seedResult = "none"
  /\ seedValue = null
  /\ seedRecords = <<>>
  /\ streak = 0
  /\ polled = FALSE
  /\ windowAdmits = 0
  /\ opState = NoCallers
  /\ opAttempt = NoCallers
  /\ queue = <<>>
  /\ sleptMs = 0
  /\ getUrl = <<>>
  /\ putRequest = NoRequest
  /\ lastStatus = 0

SpecWait == InitWait /\ [][Next]_vars

----------------------------------------------------------------------------
\* One DesecApiService with several callers: each calls getCurrentARecordIP
\* or updateARecord when it likes, so that operations are submitted while
\* the limiter is full.  p-limit keeps those in a queue, first in first out,
\* and starts the first of them when an admitted operation has finished.

MaxCallers == 3

Callers == 1..MaxCallers

LimiterEnvs ==
  {[BaseEnv EXCEPT !.MAX_RETRIES = Dec(1), !.REQUESTS_PER_MINUTE = Dec(r)] :
     r \in 1..MaxCeiling}

loopVars ==
  <<pc, lastIp, consecutiveErrors, exitCode, providerIdx, attemptNumber,
    lastDelay, ip,
    tickObs, seedObs, streakObs, polled, timeObs, wireObs>>

InitLimiter ==
  /\ pc = "callers"
  /\ lastIp = null
  /\ consecutiveErrors = 0
  /\ exitCode = 0
  /\ config \in {loadConfig(env).config : env \in LimiterEnvs}
  /\ providerIdx = 0
  /\ attemptNumber = 0
  /\ lastDelay = 0
  /\ ip = null
  /\ activeCount = 0
  /\ getLog = <<>>
  /\ tickLastIp = null
  /\ resolveResult = "none"
  /\ writeArgs = <<>>
  /\ putCount = 0
  /\ writeResult = "none"
  /\ seedResult = "none"
  /\ seedValue = null
  /\ seedRecords = <<>>
  /\ loadEnv = NoEnv
  /\ streak = 0
  /\ polled = FALSE
  /\ windowAdmits = 0
  /\ opState = [c \in Callers |-> "idle"]
  /\ opAttempt = [c \in Callers |-> 0]
  /\ queue = <<>>
  /\ sleptMs = 0
  /\ getUrl = <<>>
  /\ putRequest = NoRequest
  /\ lastStatus = 0

\* Mutant of Submit: a limiter that rejects what it cannot admit at once
SubmitRejecting(c) ==
  /\ pc = "callers"
  /\ opState[c] = "idle"
  /\ IF Admits(activeCount, config.requestsPerMinute)
     THEN /\ activeCount' = activeCount + 1
          /\ opState' = [opState EXCEPT ![c] = "running"]
          /\ opAttempt' = [opAttempt EXCEPT ![c] = 1]
          /\ windowAdmits' = Counted(windowAdmits, config.requestsPerMinute)
     ELSE /\ opState' = [opState EXCEPT ![c] = "threw"]
          /\ UNCHANGED <<activeCount, opAttempt, windowAdmits>>
  /\ UNCHANGED <<loopVars, config, queue>>

\* Caller c calls this.rateLimiter(fn): fn starts at once when fewer than
\* requestsPerMinute operations are admitted, else the call waits in the queue
Submit(c) ==
  /\ pc = "callers"
  /\ opState[c] = "idle"
  /\ IF Admits(activeCount, config.requestsPerMinute)
     THEN /\ activeCount' = activeCount + 1
          /\ opState' = [opState EXCEPT ![c] = "running"]
          /\ opAttempt' = [opAttempt EXCEPT ![c] = 1]
          /\ windowAdmits' = Counted(windowAdmits, config.requestsPerMinute)
          /\ UNCHANGED queue
     ELSE /\ opState' = [opState EXCEPT ![c] = "queued"]
          /\ queue' = Append(queue, c)
          /\ UNCHANGED <<activeCount, opAttempt, windowAdmits>>
  /\ UNCHANGED <<loopVars, config>>

\* The operation of caller c has finished with result r: its place goes to
\* the first caller of the queue, if any
Release(c, r) ==
  IF queue = <<>>
  THEN /\ activeCount' = activeCount - 1
       /\ opState' = [opState EXCEPT ![c] = r]
       /\ UNCHANGED <<opAttempt, queue, windowAdmits>>
  ELSE /\ opState' = [opState EXCEPT ![c] = r, ![Head(queue)] = "running"]
       /\ opAttempt' = [opAttempt EXCEPT ![Head(queue)] = 1]
       /\ queue' = Tail(queue)
       /\ windowAdmits' = Counted(windowAdmits, config.requestsPerMinute)
       /\ UNCHANGED activeCount

\* One request of the operation of caller c fails: retried, or it throws
OpFetchError(c) ==
  /\ pc = "callers"
  /\ opState[c] = "running"
  /\ IF RetryAgain(opAttempt[c], config.maxRetries)
     THEN /\ opAttempt' = [opAttempt EXCEPT ![c] = opAttempt[c] + 1]
          /\ UNCHANGED <<activeCount, opState, queue, windowAdmits>>
     ELSE Release(c, "threw")
  /\ UNCHANGED <<loopVars, config>>

\* One request of the operation of caller c answers 2xx: it returns
OpFetchOk(c) ==
  /\ pc = "callers"
  /\ opState[c] = "running"
  /\ Release(c, "returned")
  /\ UNCHANGED <<loopVars, config>>

\* Caller c has the result of its call
OpReturn(c) ==
  /\ pc = "callers"
  /\ opState[c] \in {"returned", "threw"}
  /\ opState' = [opState EXCEPT ![c] = "idle"]
  /\ UNCHANGED <<loopVars, config, activeCount, opAttempt, queue,
                 windowAdmits>>

NextLimiter ==
  \/ \E c \in Callers : Submit(c)
  \/ \E c \in Callers : OpFetchError(c)
  \/ \E c \in Callers : OpFetchOk(c)
  \/ \E c \in Callers : OpReturn(c)

\* Every request completes or times out (the timeout of each fetch)
SpecLimiter ==
  /\ InitLimiter
  /\ [][NextLimiter]_vars
  /\ \A c \in Callers : WF_vars(OpFetchError(c) \/ OpFetchOk(c))

----------------------------------------------------------------------------
\* updateARecord on its own: a caller hands it any string

WriteInputs ==
  {IP_A, IP_B, IP_MIN, IP_MAX, IP_B_NL, IP_999, IP_256, NOT_AN_IP, EMPTY,
   IP_SHORT, IP_LONG}

InitWrite ==
  /\ pc = "idle"
  /\ lastIp = null
  /\ consecutiveErrors = 0
  /\ exitCode = 0
  /\ config \in LoopConfigs
  /\ providerIdx = 0
  /\ attemptNumber = 0
  /\ lastDelay = 0
  /\ ip = null
  /\ activeCount = 0
  /\ getLog = <<>>
  /\ tickLastIp = null
  /\ resolveResult = "none"
  /\ writeArgs = <<>>
  /\ putCount = 0
  /\ writeResult = "none"
  /\ seedResult = "none"
  /\ seedValue = null
  /\ seedRecords = <<>>
  /\ loadEnv = NoEnv
  /\ streak = 0
  /\ polled = FALSE
  /\ windowAdmits = 0
  /\ opState = NoCallers
  /\ opAttempt = NoCallers
  /\ queue = <<>>
  /\ sleptMs = 0
  /\ getUrl = <<>>
  /\ putRequest = NoRequest
  /\ lastStatus = 0

\* A caller calls updateARecord(arg)
WriteCall(arg) ==
  /\ pc = "idle"
  /\ ip' = arg
  /\ writeArgs' = <<arg>>
  /\ attemptNumber' = 0
  /\ lastDelay' = 0
  /\ putCount' = 0
  /\ writeResult' = "none"
  /\ pc' = "update"
  /\ UNCHANGED <<lastIp, consecutiveErrors, exitCode, config, providerIdx,
                 activeCount, getLog, tickLastIp, resolveResult, seedObs,
                 streakObs, polled>>
  /\ UNCHANGED <<rateObs, limiterVars>>
  /\ putRequest' = NoRequest
  /\ lastStatus' = 0
  /\ UNCHANGED <<timeObs, getUrl>>

\* The caller has the result (a return or a throw) of updateARecord
WriteReturn ==
  /\ pc \in {"updated", "catch"}
  /\ pc' = "idle"
  /\ UNCHANGED <<progVars, tickObs, seedObs, streakObs, polled>>
  /\ UNCHANGED <<rateObs, limiterVars>>
  /\ UNCHANGED <<timeObs, wireObs>>

NextWrite ==
  \/ \E arg \in WriteInputs : WriteCall(arg)
  \/ UpdateEnter
  \/ PutFetchError
  \/ PutFetchOk
  \/ WriteReturn

SpecWrite == InitWrite /\ [][NextWrite]_vars

----------------------------------------------------------------------------
\* updateARecord with so many retries that the timeouts of p-retry pass the
\* longest delay of a timer

MaxBackoffRetries == 23

BackoffEnv == [BaseEnv EXCEPT !.MAX_RETRIES = Dec(MaxBackoffRetries)]

InitBackoff ==
  /\ pc = "idle"
  /\ lastIp = null
  /\ consecutiveErrors = 0
  /\ exitCode = 0
  /\ config = loadConfig(BackoffEnv).config
  /\ providerIdx = 0
  /\ attemptNumber = 0
  /\ lastDelay = 0
  /\ ip = null
  /\ activeCount = 0
  /\ getLog = <<>>
  /\ tickLastIp = null
  /\ resolveResult = "none"
  /\ writeArgs = <<>>
  /\ putCount = 0
  /\ writeResult = "none"
  /\ seedResult = "none"
  /\ seedValue = null
  /\ seedRecords = <<>>
  /\ loadEnv = NoEnv
  /\ streak = 0
  /\ polled = FALSE
  /\ windowAdmits = 0
  /\ opState = NoCallers
  /\ opAttempt = NoCallers
  /\ queue = <<>>
  /\ sleptMs = 0
  /\ getUrl = <<>>
  /\ putRequest = NoRequest
  /\ lastStatus = 0

SpecBackoff == InitBackoff /\ [][NextWrite]_vars

----------------------------------------------------------------------------
\* updateARecord called with any string, one call after the other, through a
\* limiter of 1..MaxCeiling places

InitSlots ==
  /\ pc = "idle"
  /\ lastIp = null
  /\ consecutiveErrors = 0
  /\ exitCode = 0
  /\ config \in {loadConfig(env).config : env \in LimiterEnvs}
  /\ providerIdx = 0
  /\ attemptNumber = 0
  /\ lastDelay = 0
  /\ ip = null
  /\ activeCount = 0
  /\ getLog = <<>>
  /\ tickLastIp = null
  /\ resolveResult = "none"
  /\ writeArgs = <<>>
  /\ putCount = 0
  /\ writeResult = "none"
  /\ seedResult = "none"
  /\ seedValue = null
  /\ seedRecords = <<>>
  /\ loadEnv = NoEnv
  /\ streak = 0
  /\ polled = FALSE
  /\ windowAdmits = 0
  /\ opState = NoCallers
  /\ opAttempt = NoCallers
  /\ queue = <<>>
  /\ sleptMs = 0
  /\ getUrl = <<>>
  /\ putRequest = NoRequest
  /\ lastStatus = 0

SpecSlots == InitSlots /\ [][NextWrite]_vars

----------------------------------------------------------------------------
\* Properties of the polling loop

\* The observations of a tick are complete: the tick has ended
TickEnded == pc \in {"wait", "exit", "poll"} /\ polled

\* C1: in a tick where getPublicIP returns a value equal to lastIp,
\* updateARecord is not called and no PUT is sent; updateARecord is called,
\* and a PUT sent, only in a tick whose resolved ip differs from the lastIp
\* the tick started with.
C1_NoOpIdempotence ==
  /\ (resolveResult = "ok" /\ ip = tickLastIp) =>
        (writeArgs = <<>> /\ putCount = 0 /\ writeResult = "none")
  /\ (writeArgs # <<>> \/ putCount > 0) =>
        (resolveResult = "ok" /\ ip # tickLastIp)

\* C1 witness: a finished tick that resolved 5.6.7.8 with lastIp = 5.6.7.8
\* and wrote nothing
C1_Witness ==
  /\ pc = "wait"
  /\ resolveResult = "ok"
  /\ tickLastIp = IP_A
  /\ ip = IP_A
  /\ writeArgs = <<>>
  /\ putCount = 0

\* C2: a tick whose resolved ip differs from lastIp makes exactly one
\* updateARecord(ip) call, and when the call succeeds lastIp is the resolved
\* ip and consecutiveErrors is 0.
C2_UpdateOnChange ==
  /\ Len(writeArgs) <= 1
  /\ (TickEnded /\ resolveResult = "ok" /\ ip # tickLastIp) =>
        (writeArgs = <<ip>> /\ writeResult \in {"ok", "failed"})
  /\ (TickEnded /\ writeResult = "ok") =>
        (lastIp = ip /\ consecutiveErrors = 0 /\ pc # "exit")

\* C2 witness: lastIp was 5.6.7.8, the tick resolved 9.9.9.9, wrote it once
\* and succeeded
C2_Witness ==
  /\ pc = "wait"
  /\ tickLastIp = IP_A
  /\ ip = IP_B
  /\ writeArgs = <<IP_B>>
  /\ writeResult = "ok"
  /\ lastIp = IP_B
  /\ consecutiveErrors = 0

\* C3: the process exits, with status 1, exactly when five ticks in a row
\* have failed (on the fifth, not earlier, not later); a successful tick
\* after four failed ones does not exit and leaves consecutiveErrors at 0.
C3_FailureBudget ==
  /\ streak <= 5
  /\ (pc = "exit") <=> (streak = 5)
  /\ (pc = "exit") <=> (exitCode # 0)
  /\ exitCode \in {0, 1}
  /\ (streak = 0) => (consecutiveErrors = 0)
  /\ (TickEnded /\ streak = 0) => (pc # "exit" /\ exitCode = 0)

\* C3 witness: the fifth failed tick in a row has ended the process
C3_Witness ==
  /\ pc = "exit"
  /\ exitCode = 1
  /\ streak = 5
  /\ consecutiveErrors = 5

\* C4: consecutiveErrors stays within 0..5, and a state where it is 5 is
\* terminal: the process has exited and no step of the program is possible.
C4_CounterBounded ==
  /\ consecutiveErrors \in 0..5
  /\ (consecutiveErrors = 5) => (pc = "exit" /\ exitCode = 1 /\ ~ENABLED Next)

\* C4 witness: the counter has reached the budget
C4_Witness == consecutiveErrors = 5 /\ pc = "exit"

\* C5: lastIp is null or a string that passes the IPv4 validation.
C5_LastIpValidated == lastIp = null \/ isValidIPv4(lastIp)

\* C6: when the initial read fails after its retries the process does not
\* exit and the first tick starts with lastIp null; when it succeeds lastIp
\* is the value read; the process never exits before the first tick.
C6_SeedFailureTolerance ==
  /\ (seedResult = "failed" /\ ~polled) =>
        (pc = "poll" /\ lastIp = null /\ exitCode = 0)
  /\ (seedResult = "ok" /\ ~polled) =>
        (pc = "poll" /\ lastIp = seedValue /\ exitCode = 0)
  /\ (pc = "exit" \/ exitCode # 0) => polled
  /\ (pc = "poll" /\ ~polled) => seedResult \in {"ok", "failed"}

\* C6 witness: the initial read has failed and the first tick is about to
\* start with lastIp null
C6_Witness ==
  /\ seedResult = "failed"
  /\ ~polled
  /\ pc = "poll"
  /\ lastIp = null

----------------------------------------------------------------------------
\* Properties of getPublicIP, read off the GETs it made

NumProviders == Len(ipProviders)

EntryValid(e) == e.ok /\ isValidIPv4(e.val)

EntryInvalid(e) == e.ok /\ ~isValidIPv4(e.val)

LastGet == getLog[Len(getLog)]

ErrorsAt(p) ==
  Cardinality({k \in 1..Len(getLog) : getLog[k].prov = p /\ ~getLog[k].ok})

\* Provider p has failed: an invalid value, or maxRetries + 1 failed GETs
ProviderFailed(p) ==
  \/ \E k \in 1..Len(getLog) : getLog[k].prov = p /\ EntryInvalid(getLog[k])
  \/ ErrorsAt(p) = config.maxRetries + 1

AllTried ==
  \A p \in 1..NumProviders : \E k \in 1..Len(getLog) : getLog[k].prov = p

\* C7: the providers are queried in list order, a provider only after every
\* earlier one has failed or returned an invalid value; the first valid
\* value is returned and no GET follows it.
C7_ProviderFallbackOrder ==
  /\ getLog # <<>> => getLog[1].prov = 1
  /\ \A k \in 1..Len(getLog) :
        /\ getLog[k].prov \in 1..NumProviders
        /\ \A q \in 1..(getLog[k].prov - 1) :
              /\ ProviderFailed(q)
              /\ \E j \in 1..(k - 1) : getLog[j].prov = q
        /\ k < Len(getLog) =>
              /\ ~EntryValid(getLog[k])
              /\ getLog[k + 1].prov \in {getLog[k].prov, getLog[k].prov + 1}
  /\ (getLog # <<>> /\ EntryValid(LastGet)) =>
        (pc = "compare" /\ resolveResult = "ok" /\ ip = LastGet.val)
  /\ (pc = "compare") => (getLog # <<>> /\ EntryValid(LastGet))

\* C7 witness: the first provider failed all its attempts, the second one
\* answered a valid address, which is returned; no later provider was queried
C7_Witness ==
  /\ pc = "compare"
  /\ Len(getLog) = config.maxRetries + 2
  /\ \A k \in 1..(Len(getLog) - 1) : getLog[k].prov = 1 /\ ~getLog[k].ok
  /\ LastGet.prov = 2
  /\ EntryValid(LastGet)
  /\ ip = LastGet.val

\* C8: getPublicIP never returns a value that fails the validation; after a
\* provider answered an invalid value that provider is not queried again and
\* the next provider, if any, is taken.
C8_ValidationGate ==
  /\ resolveResult = "ok" => isValidIPv4(ip)
  /\ \A k \in 1..Len(getLog) :
        EntryInvalid(getLog[k]) =>
          /\ \A j \in (k + 1)..Len(getLog) : getLog[j].prov > getLog[k].prov
          /\ k = Len(getLog) =>
                IF getLog[k].prov < NumProviders
                THEN /\ pc = "ipFetch"
                     /\ providerIdx = getLog[k].prov + 1
                     /\ attemptNumber = 1
                ELSE pc = "catch" /\ resolveResult = "failed"

\* C8 witness: the first provider answered "not-an-ip" and the second
\* provider is about to be queried
C8_Witness ==
  /\ pc = "ipFetch"
  /\ getLog = <<[prov |-> 1, ok |-> TRUE, val |-> NOT_AN_IP]>>
  /\ providerIdx = 2
  /\ resolveResult = "none"

\* C9: getPublicIP throws exactly when every provider of the list has been
\* tried and has failed; while a provider is untried it does not throw.
C9_FailsIffAllExhausted ==
  /\ (pc = "catch" /\ resolveResult = "failed") =>
        /\ AllTried
        /\ \A p \in 1..NumProviders : ProviderFailed(p)
        /\ \A k \in 1..Len(getLog) : ~EntryValid(getLog[k])
  /\ (getLog # <<>> /\ \A p \in 1..NumProviders : ProviderFailed(p)) =>
        (pc = "catch" /\ resolveResult = "failed")
  /\ (pc \in {"ipFetch", "compare"}) => resolveResult # "failed"
  /\ (resolveResult = "failed") => (pc \in {"catch", "wait", "poll", "exit"})

\* C9 witness: every provider failed, the first by exhausting its attempts,
\* and getPublicIP has thrown
C9_Witness ==
  /\ pc = "catch"
  /\ resolveResult = "failed"
  /\ AllTried
  /\ ErrorsAt(1) = config.maxRetries + 1

----------------------------------------------------------------------------
\* Properties of updateARecord

\* C10: updateARecord called with a string that fails the validation throws
\* the validation error, sends no PUT and makes no attempt of the retried
\* request.
C10_WriteRejection ==
  (writeArgs # <<>> /\ ~isValidIPv4(writeArgs[1])) =>
     /\ putCount = 0
     /\ attemptNumber = 0
     /\ activeCount = 0
     /\ pc \in {"update", "catch", "idle"}
     /\ (pc # "update") => (writeResult = "invalid")

\* C10 witness: updateARecord("999.1.1.1") has thrown without a PUT
C10_Witness ==
  /\ pc = "catch"
  /\ writeArgs = <<IP_999>>
  /\ writeResult = "invalid"
  /\ putCount = 0

----------------------------------------------------------------------------
\* Properties of the retried requests (p-retry around each fetch)

GetsAt(p) == Cardinality({k \in 1..Len(getLog) : getLog[k].prov = p})

----------------------------------------------------------------------------
\* Properties of the rate limiter

\* C12: the DNS operations (initial read, writes) that the limiter admits
\* within one minute are at most requestsPerMinute.
C12_RateCeiling == windowAdmits <= config.requestsPerMinute

\* With the default configuration (30 per minute, a wait of 300 seconds) the
\* loop stays far below the ceiling: at most the initial read and one write
\* fall into one minute
C12_DefaultsBelowCeiling ==
  (config.requestsPerMinute = REQUESTS_PER_MINUTE
     /\ config.intervalSeconds = INTERVAL_SECONDS) => windowAdmits <= 2

\* C13: an operation submitted while requestsPerMinute operations are
\* admitted is not rejected or failed by the limiter: it waits in the queue,
\* it leaves the queue only by being admitted, an operation throws only
\* after it ran, and every waiting operation is eventually admitted.
C13_QueuingGate ==
  /\ [][ \A c \in Callers :
           /\ (opState[c] = "idle" /\ opState'[c] # "idle") =>
                 opState'[c] = IF activeCount < config.requestsPerMinute
                               THEN "running" ELSE "queued"
           /\ (opState[c] = "queued") => (opState'[c] \in {"queued", "running"})
           /\ (opState'[c] \in {"returned", "threw"} /\ opState'[c] # opState[c])
                 => (opState[c] = "running")
           /\ (opState[c] = "queued") =>
                 (activeCount = config.requestsPerMinute
                    /\ \E k \in 1..Len(queue) : queue[k] = c)
       ]_vars
  /\ \A c \in Callers : (opState[c] = "queued") ~> (opState[c] = "running")

\* C13 witness: with the limiter full, two callers wait in the queue
C13_Witness ==
  /\ activeCount = config.requestsPerMinute
  /\ Len(queue) = 2
  /\ opState[queue[1]] = "queued"
  /\ opState[queue[2]] = "queued"

\* C13 witness: a caller that waited has been admitted and has returned
C13_WitnessAdmitted ==
  /\ config.requestsPerMinute = 1
  /\ opState[1] = "returned"
  /\ opState[2] = "running"
  /\ queue = <<3>>

\* C14: the GETs of getPublicIP do not go through the rate limiter: calling
\* getPublicIP and every GET of it leave the limiter's count of admitted
\* operations as it was, none of them holds a place of the limiter, and a
\* GET of the current provider can always be made.
C14_ResolverOutsideLimiter ==
  [][ (pc = "ipFetch" \/ pc' = "ipFetch") =>
        /\ activeCount' = activeCount
        /\ activeCount = 0
        /\ pc = "ipFetch" => ENABLED IpFetchError ]_vars

\* C14 witness: getPublicIP has made GETs to two providers and no
\* operation is counted by the limiter
C14_Witness ==
  /\ pc = "ipFetch"
  /\ providerIdx = 2
  /\ Len(getLog) >= 2
  /\ activeCount = 0

----------------------------------------------------------------------------
\* Properties of the order of the operations

\* The positions of a tick in progress
InTick == pc \in {"ipFetch", "compare", "update", "putFetch", "updated",
                   "catch"}

\* The DNS operation in flight, if any
DnsInFlight == pc \in {"seedFetch", "putFetch"}

\* C15: at most one DNS operation (initial read or write) is in flight, and
\* only while the worker awaits it; a tick starts only from the position
\* reached when the initial read has returned or a wait has ended, the wait
\* starts only when the tick has ended, and the initial read is not in
\* flight once a tick has started.
C15_SingleSequentialWorker ==
  [][ /\ activeCount \in {0, 1} /\ activeCount' \in {0, 1}
      /\ (activeCount = 1) <=> DnsInFlight
      /\ (activeCount' = 1) <=> DnsInFlight'
      /\ (InTick' /\ ~InTick) => (pc = "poll" /\ pc' = "ipFetch")
      /\ (pc' = "poll") => (pc \in {"seedFetch", "wait"})
      /\ (pc' = "wait") => (pc \in {"compare", "updated", "catch"})
      /\ (pc' = "seedFetch" /\ pc # "seedFetch") => (pc = "seed" /\ ~polled)
      /\ (pc' = "putFetch" /\ pc # "putFetch") => (pc = "update")
    ]_vars

\* C15 witness: in a second tick in a row, a write is in flight and is the
\* only operation the limiter counts
C15_Witness ==
  /\ pc = "putFetch"
  /\ activeCount = 1
  /\ streak = 1
  /\ polled

----------------------------------------------------------------------------
\* Properties of the error handling of the loop

\* The tick has thrown: getPublicIP or updateARecord
TickThrew == resolveResult = "failed" \/ writeResult \in {"failed", "invalid"}

\* C16: when getPublicIP or updateARecord throws in a tick, the catch block
\* of the loop is what runs next; it adds exactly one to consecutiveErrors,
\* and it ends the process (status 1) only when the counter so reaches
\* MAX_CONSECUTIVE_ERRORS; otherwise the loop goes on to the wait.  The
\* process ends nowhere else in the loop.
C16_ErrorsCaughtAtLoop ==
  [][ /\ (TickThrew' /\ ~TickThrew) =>
            (pc' = "catch" /\ consecutiveErrors' = consecutiveErrors)
      /\ (pc' = "catch") => (TickThrew' /\ ~TickThrew /\ InTick)
      /\ (pc = "catch") =>
            /\ consecutiveErrors' = consecutiveErrors + 1
            /\ IF consecutiveErrors + 1 >= MAX_CONSECUTIVE_ERRORS
               THEN pc' = "exit" /\ exitCode' = 1
               ELSE pc' = "wait" /\ exitCode' = 0
      /\ (pc' = "exit" \/ exitCode' # exitCode) => (pc = "catch")
    ]_vars

\* C16 witness: a tick whose write failed after its retries has been caught,
\* counted once, and the loop is at the wait
C16_Witness ==
  /\ pc = "wait"
  /\ writeResult = "failed"
  /\ streak = 1
  /\ consecutiveErrors = 1
  /\ exitCode = 0

\* C20: in the polling loop consecutiveErrors changes at two points only: the
\* catch block adds exactly one, and the end of a tick that did not throw
\* (after the update, or with no update when the ip is unchanged) sets it to
\* 0; every failed tick passes the first point and every other tick the
\* second.
C20_CounterDiscipline ==
  [][ /\ (polled /\ consecutiveErrors' # consecutiveErrors) =>
            \/ pc = "catch" /\ consecutiveErrors' = consecutiveErrors + 1
            \/ pc \in {"compare", "updated"} /\ pc' = "wait"
                 /\ consecutiveErrors' = 0
      /\ (pc = "catch") => (consecutiveErrors' = consecutiveErrors + 1)
      /\ (pc' = "wait" /\ pc # "wait") =>
            IF TickThrew'
            THEN pc' = "wait" /\ consecutiveErrors' >= 1
            ELSE consecutiveErrors' = 0
      /\ (pc = "compare" /\ ip = lastIp) =>
            (pc' = "wait" /\ consecutiveErrors' = 0)
      /\ (pc = "updated") => (pc' = "wait" /\ consecutiveErrors' = 0)
    ]_vars

\* C20 witness: after four failed ticks a tick has resolved the ip that is
\* lastIp, and is about to end without an update
C20_Witness ==
  /\ pc = "compare"
  /\ consecutiveErrors = 4
  /\ ip = lastIp
  /\ resolveResult = "ok"

----------------------------------------------------------------------------
\* Properties of getCurrentARecordIP

C17_WitnessEmpty == seedResult = "ok" /\ seedRecords = <<>> /\ seedValue = null

C17_WitnessFailed ==
  seedResult = "failed" /\ attemptNumber = config.maxRetries + 1 /\ ~polled

----------------------------------------------------------------------------
\* Properties of the configuration

\* The environment on record gives no token (no variable, an empty one, no
\* secret file or one with white space only), or no domain, or a domain
\* that is no fully qualified domain name
TokenMissing ==
  loadEnv.DESEC_TOKEN \in {undefined, EMPTY} /\ loadEnv.secretToken \in {null, BLANK}

DomainMissing == loadEnv.DESEC_DOMAIN \in {undefined, EMPTY}

DomainInvalid == loadEnv.DESEC_DOMAIN \in BadDomains

LoadDone == pc # "load" /\ ~polled

\* C18: when loadConfig finds no token, no domain, or a domain that is no
\* fully qualified domain name, the process exits with status 1 and nothing
\* else has happened or can happen: no initial read, no GET of an IP
\* provider, no operation admitted by the limiter, no PUT.  Otherwise
\* loadConfig returns a Config and the process does not exit there.
C18_ConfigFailureFatal ==
  /\ (LoadDone /\ (TokenMissing \/ DomainMissing \/ DomainInvalid)) =>
        /\ pc = "exit"
        /\ exitCode = 1
        /\ config = NoConfig
        /\ activeCount = 0 /\ attemptNumber = 0
        /\ seedResult = "none"
        /\ getLog = <<>> /\ resolveResult = "none"
        /\ writeArgs = <<>> /\ putCount = 0
        /\ ~ENABLED NextStart
  /\ (LoadDone /\ ~(TokenMissing \/ DomainMissing \/ DomainInvalid)) =>
        /\ pc \in {"seed", "seedFetch", "poll"}
        /\ exitCode = 0
        /\ config # NoConfig
  /\ (pc = "load") => (exitCode = 0 /\ activeCount = 0 /\ ~polled)

\* C18 witness: the domain "lan" has no top-level label and the process has
\* exited from loadConfig
C18_Witness ==
  /\ pc = "exit"
  /\ exitCode = 1
  /\ ~polled
  /\ loadEnv.DESEC_TOKEN = TOKEN
  /\ loadEnv.DESEC_DOMAIN = DOMAIN_NO_TLD

\* C18 witness of the other two cases: no token; no domain
C18_WitnessNoToken ==
  pc = "exit" /\ ~polled /\ TokenMissing /\ loadEnv.DESEC_DOMAIN = DOMAIN_OK

C18_WitnessNoDomain ==
  pc = "exit" /\ ~polled /\ ~TokenMissing /\ DomainMissing

\* The texts that are plain numerals of a positive integer, with their
\* values, and the texts that have no number > 0 to read
NumeralValue(text) ==
  CASE text = T_7 -> 7 [] text = T_007 -> 7 [] text = T_PLUS_8 -> 8
    [] text = T_SPACE_42 -> 42

Numerals == {T_7, T_007, T_PLUS_8, T_SPACE_42}

NotPositive == {T_0, T_MINUS_5, T_ABC}

Unset == {undefined, EMPTY}

\* One numeric option: the text given, the value loaded, the default
OptionLoaded(text, value, default) ==
  /\ value \in Nat /\ value > 0
  /\ text \in Unset => value = default
  /\ text \in NotPositive => value = default
  /\ text \in Numerals => value = NumeralValue(text)

C19_WitnessLeadingDigits ==
  /\ pc = "seed"
  /\ loadEnv.MAX_RETRIES = T_12ABC
  /\ config.maxRetries = 12
  /\ loadEnv.TTL = T_3_7
  /\ config.ttl = 3

----------------------------------------------------------------------------
\* Properties of lastIp across ticks

\* C26: a tick in which getPublicIP or updateARecord threw leaves lastIp as
\* it was when the tick started; after a failed write of ip, lastIp differs
\* from ip, it stays so until a tick compares, and a tick that resolves an
\* ip different from lastIp calls updateARecord with it.
C26_FailedTickKeepsLastIp ==
  /\ [](TickThrew => lastIp = tickLastIp)
  /\ []((writeResult = "failed") => (ip # lastIp /\ writeArgs = <<ip>>))
  /\ [][ /\ (lastIp' # lastIp /\ polled) => (pc = "updated")
         /\ (pc = "compare" /\ ip # lastIp) =>
               (pc' = "update" /\ writeArgs' = <<ip>>)
         /\ (pc = "catch") => (lastIp' = lastIp)
       ]_vars

\* C26 witness: a write of 5.6.7.8 has failed, lastIp is still what it was
\* (9.9.9.9), and the loop is waiting for the next tick
C26_Witness ==
  /\ pc = "wait"
  /\ writeResult = "failed"
  /\ ip = IP_A
  /\ tickLastIp = IP_B
  /\ lastIp = IP_B

\* C26 witness of the next tick: after a failed tick, with lastIp 9.9.9.9,
\* the tick has resolved 5.6.7.8 and calls updateARecord("5.6.7.8")
C26_WitnessAgain ==
  /\ pc = "update"
  /\ streak = 1
  /\ lastIp = IP_B
  /\ writeArgs = <<IP_A>>

\* C27: in a tick where getPublicIP threw, updateARecord is not called, no
\* PUT is sent and the limiter admits nothing; updateARecord is only called
\* from the comparison, with the valid value that the last GET of this tick's
\* getPublicIP returned, which is not lastIp.
C27_WriteOnlyResolved ==
  /\ []((resolveResult = "failed") =>
          (writeArgs = <<>> /\ putCount = 0 /\ writeResult = "none"
             /\ activeCount = 0 /\ pc \notin {"update", "putFetch", "updated"}))
  /\ []((writeArgs # <<>>) =>
          (resolveResult = "ok" /\ writeArgs = <<ip>> /\ isValidIPv4(ip)
             /\ ip # tickLastIp))
  /\ [][ (writeArgs' # writeArgs /\ writeArgs' # <<>>) =>
            /\ pc = "compare"
            /\ resolveResult = "ok"
            /\ getLog # <<>>
            /\ EntryValid(LastGet)
            /\ writeArgs' = <<LastGet.val>>
            /\ LastGet.val # lastIp
       ]_vars

\* C27 witness: getPublicIP has thrown in a tick that started with lastIp
\* 5.6.7.8; the tick is over and nothing was written
C27_Witness ==
  /\ pc = "wait"
  /\ resolveResult = "failed"
  /\ tickLastIp = IP_A
  /\ writeArgs = <<>>
  /\ putCount = 0
  /\ lastIp = IP_A

\* C29: getCurrentARecordIP is called once: from the entry of
\* monitorAndUpdateIP, which is never reached again, and it has returned or
\* thrown before the first getPublicIP; once the first tick has started no
\* GET of the record is made, and lastIp changes only after updateARecord
\* returned, to the ip it wrote.
C29_SeedReadOnce ==
  /\ [](polled => pc \notin {"load", "seed", "seedFetch"})
  /\ []((pc \in {"load", "seed", "seedFetch"}) =>
          (getLog = <<>> /\ resolveResult = "none"))
  /\ []((pc = "poll" /\ ~polled) => seedResult \in {"ok", "failed"})
  /\ [][ /\ (pc' = "seed") => (pc \in {"seed", "load"})
         /\ (pc' = "seedFetch") => (pc \in {"seed", "seedFetch"})
         /\ (pc = "seed") => (pc' = "seedFetch" /\ attemptNumber' = 1)
         /\ (seedResult' # "none") => (pc = "seedFetch" \/ seedResult' = seedResult)
         /\ (polled /\ lastIp' # lastIp) =>
               (pc = "updated" /\ writeResult = "ok" /\ lastIp' = ip
                  /\ writeArgs = <<ip>>)
       ]_vars

\* C29 witness: in a later tick (after a failed one) a write has succeeded
\* and lastIp has become the ip written
C29_Witness ==
  /\ pc = "wait"
  /\ polled
  /\ writeResult = "ok"
  /\ tickLastIp = IP_A
  /\ lastIp = IP_B
  /\ seedResult = "none"

\* C30: a failed initial read is not counted: consecutiveErrors is 0 until
\* the first tick has started, whatever the initial read did, the process
\* does not exit before, and it exits only when five ticks in a row have
\* failed.
C30_SeedNotCounted ==
  /\ (~polled) => (consecutiveErrors = 0 /\ streak = 0 /\ pc # "exit")
  /\ consecutiveErrors = streak
  /\ (pc = "exit") => (polled /\ streak = MAX_CONSECUTIVE_ERRORS)

\* C30 witness: the initial read has failed and the first tick is about to
\* start with the counter at 0
C30_Witness ==
  /\ pc = "poll"
  /\ ~polled
  /\ seedResult = "failed"
  /\ consecutiveErrors = 0

\* C30 witness of the exit: the process has ended after five failed ticks,
\* with lastIp still null as after a failed initial read
C30_WitnessExit ==
  /\ pc = "exit"
  /\ lastIp = null
  /\ streak = 5
  /\ consecutiveErrors = 5

\* C21: getCurrentARecordIP and updateARecord enter the limiter once, before
\* the first attempt; while the operation is admitted (through all its
\* attempts, at most maxRetries + 1) the limiter admits nothing more, and a
\* retry leaves the admission as it is: the operation stays the one active
\* operation and only the attempt number rises.
C21_GateThenRetry ==
  /\ []((pc \in {"seedFetch", "putFetch"}) =>
          (activeCount = 1 /\ attemptNumber \in 1..(config.maxRetries + 1)))
  /\ []((pc \notin {"seedFetch", "putFetch"}) => activeCount = 0)
  /\ [][ /\ (activeCount = 1) => (windowAdmits' = windowAdmits)
         /\ (pc \in {"seedFetch", "putFetch"} /\ pc' = pc) =>
               /\ attemptNumber' = attemptNumber + 1
               /\ activeCount' = activeCount
         /\ (activeCount' > activeCount) =>
               /\ pc \in {"seed", "update"}
               /\ attemptNumber' = 1
               /\ windowAdmits' = windowAdmits + 1
         /\ (windowAdmits' > windowAdmits) => (pc \in {"seed", "update"})
       ]_vars

\* C21 witness: the third PUT of one updateARecord call is about to be made
\* under the admission of the call
C21_Witness ==
  /\ pc = "putFetch"
  /\ attemptNumber = 3
  /\ putCount = 2
  /\ activeCount = 1
  /\ windowAdmits = 1

----------------------------------------------------------------------------
\* Convergence

\* From here on the providers' answers are the valid address x, no
\* resolution fails and no write fails
Good(x) ==
  /\ pc # "exit"
  /\ resolveResult # "failed"
  /\ writeResult \notin {"failed", "invalid"}
  /\ (resolveResult = "ok") => (ip = x)

\* lastIp is x and the tick writes nothing
Converged(x) ==
  /\ lastIp = x
  /\ consecutiveErrors = 0
  /\ writeArgs = <<>>
  /\ putCount = 0
  /\ pc \in {"poll", "ipFetch", "compare", "wait"}

\* C28: if from some point on every resolution succeeds with the same valid
\* address x and every write succeeds, then from some point on lastIp = x,
\* consecutiveErrors = 0 and no tick writes; once lastIp = x under these
\* conditions no write is started any more, and lastIp becomes x only by
\* the one successful write of x, so at most one write is made.
C28_Convergence ==
  /\ \A x \in {IP_A, IP_B} : (<>[]Good(x)) => <>[]Converged(x)
  /\ \A x \in {IP_A, IP_B} :
        []((lastIp = x /\ []Good(x)) => [](pc \notin {"update", "putFetch"}))
  /\ [][ /\ (pc = "compare" /\ ip = lastIp) =>
               (pc' = "wait" /\ consecutiveErrors' = 0 /\ writeArgs' = <<>>)
         /\ (pc = "updated") => (lastIp' = ip /\ consecutiveErrors' = 0)
       ]_vars

\* C28 witness: a tick that resolved the address lastIp already holds has
\* ended without a write, in the tick after the one that wrote it
C28_Witness ==
  /\ pc = "wait"
  /\ polled
  /\ resolveResult = "ok"
  /\ ip = IP_B
  /\ lastIp = IP_B
  /\ tickLastIp = IP_B
  /\ writeArgs = <<>>
  /\ consecutiveErrors = 0
  /\ seedResult = "none"

----------------------------------------------------------------------------
\* The wait between ticks

\* The wait lasted intervalSeconds * 1000 ms (stated without the product)
FullWait == sleptMs \div 1000 = config.intervalSeconds /\ sleptMs % 1000 = 0

\* intervalSeconds * 1000 is a delay that a timer of Node takes
InTimerRange == config.intervalSeconds <= TIMEOUT_MAX \div 1000

\* The steps of the loop around the wait: a tick without a change, a tick
\* with a successful update and a failed tick whose error is not the fifth
\* in a row go to the wait; the wait is left after intervalSeconds * 1000
\* ms; getPublicIP is called only when the wait is over (or, the first
\* time, when the initial read is)
WaitStep ==
  /\ (pc = "compare" /\ ip = lastIp) => (pc' = "wait")
  /\ (pc = "updated") => (pc' = "wait")
  /\ (pc = "catch" /\ consecutiveErrors + 1 < MAX_CONSECUTIVE_ERRORS) =>
        (pc' = "wait" /\ exitCode' = 0)
  /\ (pc = "catch") => (pc' \in {"wait", "exit"})
  /\ (pc = "wait") => (pc' = "poll" /\ FullWait')
  /\ (pc' = "poll") => (pc \in {"wait", "seedFetch"})
  /\ (pc' = "ipFetch" /\ pc # "ipFetch") => (pc = "poll" /\ (polled => FullWait))

\* C22: every tick that does not end the process, whatever it did, is
\* followed by a wait of intervalSeconds * 1000 ms, and every getPublicIP
\* call but the first starts only when that wait is over.
C22_WaitAfterEveryTick ==
  /\ []((pc = "poll" /\ polled) => FullWait)
  /\ []((pc \in {"ipFetch", "compare", "update", "putFetch", "updated",
                 "catch", "wait"}) => sleptMs = 0)
  /\ [][WaitStep]_vars

\* The same for the intervals of at most 2147483 s
C22_WaitWithinTimerRange ==
  /\ []((InTimerRange /\ pc = "poll" /\ polled) => FullWait)
  /\ []((pc \in {"ipFetch", "compare", "update", "putFetch", "updated",
                 "catch", "wait"}) => sleptMs = 0)
  /\ [][InTimerRange => WaitStep]_vars

\* The wait after a failed tick is over and the loop goes on
C22_FailedTickWaited ==
  /\ pc = "poll"
  /\ polled
  /\ resolveResult = "failed"
  /\ streak = 1
  /\ exitCode = 0
  /\ sleptMs = 300000

\* With INTERVAL_SECONDS=2147484 the wait after a tick lasted 1 ms
C22_ShortWait ==
  /\ pc = "poll"
  /\ polled
  /\ config.intervalSeconds = 2147484
  /\ sleptMs = 1

----------------------------------------------------------------------------
\* The delays between the attempts

\* A step in which p-retry starts another attempt of the same operation
RetryStep == pc' = pc /\ attemptNumber' = attemptNumber + 1

\* C25: within one operation of the retry wrapper the delay before each
\* retry is strictly greater than the delay before the retry before it (and
\* than 0 for the first retry).
C25_ExponentialBackoff == [][RetryStep => lastDelay' > lastDelay]_vars

\* Up to the 22nd retry the delay is 1000 ms before the first retry and twice
\* the delay before for every later one
C25_DoublingWithinTimerRange ==
  [][(RetryStep /\ attemptNumber <= 22) =>
        /\ lastDelay' > lastDelay
        /\ (attemptNumber = 1) => (lastDelay' = 1000)
        /\ (attemptNumber > 1) => (lastDelay' = 2 * lastDelay)
    ]_vars

\* The second retry of a PUT is in progress, 2000 ms after the first
C25_SecondRetry ==
  /\ pc = "putFetch"
  /\ attemptNumber = 3
  /\ putCount = 2
  /\ lastDelay = 2000

\* The 23rd retry of a PUT is made 1 ms after the 23rd failed attempt
C25_CollapsedDelay ==
  /\ pc = "putFetch"
  /\ attemptNumber = 24
  /\ putCount = 23
  /\ lastDelay = 1

----------------------------------------------------------------------------
\* The answers of the DNS API

\* The status is one of 200..299
Is2xx(status) == status >= 200 /\ status <= 299

\* C23: an answer of the DNS API with a status outside 200..299, to the GET
\* or to the PUT, is a failed attempt: the operation does not return on it,
\* another attempt follows while attempts are left, and after the last one
\* the operation throws; an operation returns only on a 2xx answer, so
\* lastIp is assigned only after a PUT that was answered 2xx.
C23_Non2xxFails ==
  /\ []((writeResult = "ok") => Is2xx(lastStatus))
  /\ []((seedResult = "ok") => Is2xx(lastStatus))
  /\ []((writeResult = "failed") =>
          (~Is2xx(lastStatus) /\ lastIp = tickLastIp
             /\ putCount = config.maxRetries + 1))
  /\ [][ /\ (pc \in {"seedFetch", "putFetch"} /\ ~Is2xx(lastStatus')) =>
               /\ lastIp' = lastIp
               /\ IF attemptNumber <= config.maxRetries
                  THEN pc' = pc /\ attemptNumber' = attemptNumber + 1
                  ELSE /\ (pc = "putFetch") =>
                             (pc' = "catch" /\ writeResult' = "failed")
                       /\ (pc = "seedFetch") =>
                             (pc' = "poll" /\ seedResult' = "failed")
         /\ (pc' = "updated") => (pc = "putFetch" /\ Is2xx(lastStatus'))
         /\ (polled /\ lastIp' # lastIp) =>
               (Is2xx(lastStatus) /\ writeResult = "ok")
       ]_vars

\* C23 witness: every PUT of a write was answered 404, updateARecord has
\* thrown and lastIp is what it was
C23_Witness ==
  /\ pc = "wait"
  /\ writeResult = "failed"
  /\ lastStatus = 404
  /\ putCount = config.maxRetries + 1
  /\ ip = IP_A
  /\ lastIp = IP_B
  /\ tickLastIp = IP_B

\* C23 witness: every GET of the initial read was answered 404 and the read
\* has thrown
C23_WitnessRead ==
  /\ pc = "poll"
  /\ ~polled
  /\ seedResult = "failed"
  /\ lastStatus = 404
  /\ lastIp = null

----------------------------------------------------------------------------
\* The record addressed

\* What stands in a record URL between "/rrsets/" and "/A/"
RecordSegment(url) ==
  SubSeq(url, Len(URL_DOMAINS) + Len(config.desecDomain) + Len(URL_RRSETS) + 1,
         Len(url) - Len(URL_A))

\* url is an address of an A record set of the configured domain
IsRecordUrl(url) ==
  /\ Len(url) > Len(URL_DOMAINS) + Len(config.desecDomain) + Len(URL_RRSETS)
                  + Len(URL_A)
  /\ SubSeq(url, 1, Len(URL_DOMAINS) + Len(config.desecDomain) + Len(URL_RRSETS))
       = URL_DOMAINS \o config.desecDomain \o URL_RRSETS
  /\ SubSeq(url, Len(url) - Len(URL_A) + 1, Len(url)) = URL_A

\* C24: the PUT requests of updateARecord go to the URL the GET requests of
\* getCurrentARecordIP went to; when the record is "@" that URL has "..." in
\* the place of the record and the body written has subname "", otherwise
\* the URL has the record label there and subname is that label.
C24_ApexHandling ==
  /\ (pc = "seedFetch" \/ polled) => IsRecordUrl(getUrl)
  /\ (pc = "putFetch") => (putRequest # NoRequest)
  /\ (putRequest # NoRequest) =>
        /\ putRequest.url = getUrl
        /\ putRequest.body.records = <<ip>>
        /\ putRequest.body.type = "A"
        /\ putRequest.body.ttl = config.ttl
        /\ IF config.desecRecord = <<"@">>
           THEN /\ putRequest.body.subname = <<>>
                /\ RecordSegment(putRequest.url) = <<".", ".", ".">>
           ELSE /\ putRequest.body.subname = config.desecRecord
                /\ RecordSegment(putRequest.url) = config.desecRecord

\* C24 witness: a PUT for the apex record is in flight
C24_Witness ==
  /\ pc = "putFetch"
  /\ config.desecRecord = <<"@">>
  /\ putRequest.body.subname = <<>>
  /\ putRequest.url = getUrl
  /\ RecordSegment(getUrl) = <<".", ".", ".">>

\* C24 witness: a PUT for the record "www" is in flight
C24_WitnessLabel ==
  /\ pc = "putFetch"
  /\ config.desecRecord = WWW
  /\ putRequest.body.subname = WWW
  /\ putRequest.url = getUrl
  /\ RecordSegment(getUrl) = WWW

----------------------------------------------------------------------------
\* The places of the limiter

\* A DNS operation is between its admission and its end
OperationRunning == pc \in {"seedFetch", "putFetch"}

\* C31: the limiter's count of operations in flight is 1 while a DNS
\* operation runs and 0 otherwise: the place is given back when the
\* operation returns, when it throws after its last attempt and when it
\* throws on an invalid argument; so a call that is about to enter the
\* limiter finds a free place, however many calls failed before.
C31_SlotReleased ==
  /\ [](OperationRunning => activeCount = 1)
  /\ []((~OperationRunning) => activeCount = 0)
  /\ []((pc \in {"seed", "update"}) => activeCount < config.requestsPerMinute)
  /\ [][ /\ (pc = "putFetch" /\ pc' \in {"updated", "catch"}) =>
               (activeCount' = activeCount - 1)
         /\ (pc = "seedFetch" /\ pc' = "poll") =>
               (activeCount' = activeCount - 1)
         /\ (pc = "update") =>
               (pc' \in {"putFetch", "catch"}
                  /\ (pc' = "catch") =>
                        (writeResult' = "invalid" /\ activeCount' = 0))
       ]_vars

\* C31 witness: a call has thrown after its last attempt, through a limiter
\* of one place, and the place is free
C31_Witness ==
  /\ pc = "catch"
  /\ writeResult = "failed"
  /\ putCount = config.maxRetries + 1
  /\ config.requestsPerMinute = 1
  /\ activeCount = 0

\* C31 witness: a call has thrown on an invalid argument and the place is free
C31_WitnessInvalid ==
  /\ pc = "catch"
  /\ writeResult = "invalid"
  /\ putCount = 0
  /\ config.requestsPerMinute = 1
  /\ activeCount = 0

\* C31 witness: a call has returned and the place is free
C31_WitnessOk ==
  /\ pc = "updated"
  /\ writeResult = "ok"
  /\ config.requestsPerMinute = 1
  /\ activeCount = 0

\* C31 witness: a call made after earlier ones has been admitted by the
\* limiter of one place
C31_WitnessLater ==
  /\ pc = "putFetch"
  /\ config.requestsPerMinute = 1
  /\ windowAdmits = 2
  /\ activeCount = 1

----------------------------------------------------------------------------
\* The work of a tick

\* C32: a tick sends at most NumProviders * (maxRetries + 1) GETs to the IP
\* providers, at most maxRetries + 1 to each, and at most maxRetries + 1
\* PUTs, and, every request being answered or timing out, a tick that has
\* started reaches the wait or the end of the process.
C32_TickTerminates ==
  /\ [](Len(getLog) <= NumProviders * (config.maxRetries + 1))
  /\ [](\A p \in 1..NumProviders : GetsAt(p) <= config.maxRetries + 1)
  /\ [](putCount <= config.maxRetries + 1)
  /\ [](InTick => (providerIdx \in 1..NumProviders))
  /\ (InTick ~> (pc \in {"wait", "exit"}))

\* C32 witness: every provider has failed maxRetries + 1 times, the tick has
\* sent NumProviders * (maxRetries + 1) GETs and getPublicIP has thrown
C32_Witness ==
  /\ pc = "catch"
  /\ resolveResult = "failed"
  /\ Len(getLog) = NumProviders * (config.maxRetries + 1)
  /\ \A k \in 1..Len(getLog) : ~getLog[k].ok
  /\ putCount = 0

\* C32 witness: a tick that sent maxRetries + 1 PUTs has reached the wait
C32_WitnessPuts ==
  /\ pc = "wait"
  /\ polled
  /\ putCount = config.maxRetries + 1
  /\ writeResult = "ok"
  /\ sleptMs = 0

====
